---- MODULE Spec2Model ----
(***************************************************************************)
(* Reservation system: customers, hotels and reservations, each persisted  *)
(* as one JSON file holding a map from id to record.  Every operation is a *)
(* static method that loads the whole map, changes one entry and saves the *)
(* whole map (src/src/hotel.py, src/src/customer.py,                       *)
(* src/src/reservation.py, src/src/utils/file_manager.py).                 *)
(***************************************************************************)
EXTENDS Integers, Sequences, FiniteSets, TLC

\* ------------------------------------------------------------------------
\* Bounds of the model
\* ------------------------------------------------------------------------
MaxRooms == 2
MaxOps == 4

HotelIds == {"H1", "H2"}
CustomerIds == {"C1", "C2"}
ReservationIds == {"R1", "R2", "R3"}

\* ------------------------------------------------------------------------
\* Program constants (src/src/utils/constants.py)
\* ------------------------------------------------------------------------
ACTIVE_STATUS == "active"
CANCELED_STATUS == "canceled"

\* ------------------------------------------------------------------------
\* Python values
\* ------------------------------------------------------------------------
\* An optional argument is <<>> when omitted (None) and <<v>> when supplied.
None == <<>>
Some(v) == <<v>>
\* Python truthiness of an optional string argument: `if name:`
Truthy(opt) == opt # None /\ opt[1] # ""

\* Results handed to the caller
PyNone == [type |-> "NoneType"]
PyBool(b) == [type |-> "bool", value |-> b]
PyTrue == PyBool(TRUE)
PyFalse == PyBool(FALSE)
\* An exception that leaves the operation instead of a result
PyRaise(exc) == [type |-> "raise", exc |-> exc]
IsRaise(x) == x \in {PyRaise("UnicodeDecodeError"), PyRaise("OSError")}

\* dict helpers: a dict is a function from its keys
EmptyDict == [k \in {} |-> k]
Put(d, k, v) == [x \in (DOMAIN d) \cup {k} |-> IF x = k THEN v ELSE d[x]]
Del(d, k) == [x \in (DOMAIN d) \ {k} |-> d[x]]

\* list helpers
InList(x, s) == \E i \in 1..Len(s) : s[i] = x
\* Mutant: the head of the list is removed, whatever x is
ListRemove_Head(s, x) == Tail(s)

\* list.remove(x): removes the first occurrence of x
FirstIndex(x, s) == CHOOSE i \in 1..Len(s) : s[i] = x /\ \A j \in 1..(i-1) : s[j] # x
ListRemove(s, x) ==
    LET i == FirstIndex(x, s)
    IN  SubSeq(s, 1, i - 1) \o SubSeq(s, i + 1, Len(s))

Max(a, b) == IF a >= b THEN a ELSE b
Min(a, b) == IF a <= b THEN a ELSE b

\* ------------------------------------------------------------------------
\* Record Store (src/src/utils/file_manager.py)
\* A file is [kind, data]: kind "missing" (no file), "ok" (parsable JSON
\* holding `data`), "corrupt" (text that is not JSON: json.load raises
\* JSONDecodeError) or "undecodable" (bytes that are not UTF-8: reading
\* raises UnicodeDecodeError, a ValueError that load_json does not catch).
\* ------------------------------------------------------------------------
MissingFile == [kind |-> "missing", data |-> EmptyDict]
CorruptFile == [kind |-> "corrupt", data |-> EmptyDict]
UndecodableFile == [kind |-> "undecodable", data |-> EmptyDict]
OkFile(d) == [kind |-> "ok", data |-> d]

load_json(file) ==
    IF file.kind = "ok" THEN file.data
    ELSE IF file.kind = "undecodable" THEN PyRaise("UnicodeDecodeError")
    ELSE EmptyDict

\* The outcomes of a save:
\*   "ok"     the dump is written;
\*   "fail"   open() raises IOError, which is caught and reported: the file
\*            keeps its content;
\*   "torn"   open(path, "w") has truncated the file when the write raises
\*            IOError (caught and reported): the file is left with an
\*            incomplete dump, which no longer parses;
\*   "mkdir"  os.makedirs, which is outside the try block, raises OSError:
\*            the file keeps its content and the exception leaves save_json.
save_json(file, data, io) ==
    IF io = "ok" THEN OkFile(data)
    ELSE IF io = "torn" THEN CorruptFile
    ELSE file

\* What the operation hands to its caller after a save: its own result, or
\* the exception that left save_json
Saved(ret, io) == IF io = "mkdir" THEN PyRaise("OSError") ELSE ret

\* ------------------------------------------------------------------------
\* Hotel Inventory (src/src/hotel.py)
\* ------------------------------------------------------------------------
_load_hotels(hf) == load_json(hf)
_save_hotels(hf, hotels, io) == save_json(hf, hotels, io)

\* Hotel.__init__ followed by Hotel.to_dict
HotelDict(hotel_id, name, city, total_rooms) ==
    [hotel_id |-> hotel_id, name |-> name, city |-> city,
     total_rooms |-> total_rooms, available_rooms |-> total_rooms,
     reservations |-> <<>>]

\* Hotel.from_dict: the object handed back by display_hotel
HotelFromDict(data) ==
    [type |-> "Hotel", hotel_id |-> data.hotel_id, name |-> data.name,
     city |-> data.city, total_rooms |-> data.total_rooms,
     available_rooms |-> data.available_rooms,
     reservations |-> data.reservations]

\* Mutant: an id already present is overwritten by the new record
create_hotel_Overwrite(hf, hotel_id, name, city, total_rooms, io) ==
    LET hotels == _load_hotels(hf)
        d == HotelDict(hotel_id, name, city, total_rooms)
    IN  [ret |-> IF hotel_id \in DOMAIN hotels THEN PyNone
                 ELSE HotelFromDict(d),
         hotelsFile |-> _save_hotels(hf, Put(hotels, hotel_id, d), io)]

create_hotel(hf, hotel_id, name, city, total_rooms, io) ==
    LET hotels == _load_hotels(hf)
    IN  IF IsRaise(hotels) THEN [ret |-> hotels, hotelsFile |-> hf]
        ELSE IF hotel_id \in DOMAIN hotels
        THEN [ret |-> PyNone, hotelsFile |-> hf]
        ELSE LET d == HotelDict(hotel_id, name, city, total_rooms)
             IN  [ret |-> Saved(HotelFromDict(d), io),
                  hotelsFile |-> _save_hotels(hf, Put(hotels, hotel_id, d), io)]

\* Mutant: deleting an existing hotel empties the whole collection
delete_hotel_ClearsAll(hf, hotel_id, io) ==
    LET hotels == _load_hotels(hf)
    IN  IF hotel_id \notin DOMAIN hotels
        THEN [ret |-> PyFalse, hotelsFile |-> hf]
        ELSE [ret |-> PyTrue, hotelsFile |-> _save_hotels(hf, EmptyDict, io)]

delete_hotel(hf, hotel_id, io) ==
    LET hotels == _load_hotels(hf)
    IN  IF IsRaise(hotels) THEN [ret |-> hotels, hotelsFile |-> hf]
        ELSE IF hotel_id \notin DOMAIN hotels
        THEN [ret |-> PyFalse, hotelsFile |-> hf]
        ELSE [ret |-> Saved(PyTrue, io),
              hotelsFile |-> _save_hotels(hf, Del(hotels, hotel_id), io)]

\* Mutant: the adjustment without the max(0, ...) guard
AdjustRooms_NoClamp(h, total_rooms) ==
    IF total_rooms = None THEN h
    ELSE LET diff == total_rooms[1] - h.total_rooms
         IN  Put(Put(h, "total_rooms", total_rooms[1]),
                 "available_rooms", h.available_rooms + diff)

\* Mutant: total_rooms is replaced and available_rooms is left alone
AdjustRooms_KeepAvailable(h, total_rooms) ==
    IF total_rooms = None THEN h
    ELSE Put(h, "total_rooms", total_rooms[1])

\* The capacity adjustment of modify_hotel (hotel.py:203-213)
AdjustRooms(h, total_rooms) ==
    IF total_rooms = None THEN h
    ELSE LET diff == total_rooms[1] - h.total_rooms
         IN  Put(Put(h, "total_rooms", total_rooms[1]),
                 "available_rooms", Max(0, h.available_rooms + diff))

modify_hotel(hf, hotel_id, name, location, total_rooms, io) ==
    LET hotels == _load_hotels(hf)
    IN  IF IsRaise(hotels) THEN [ret |-> hotels, hotelsFile |-> hf]
        ELSE IF hotel_id \notin DOMAIN hotels
        THEN [ret |-> PyFalse, hotelsFile |-> hf]
        ELSE LET h0 == hotels[hotel_id]
                 h1 == IF Truthy(name) THEN Put(h0, "name", name[1]) ELSE h0
                 h2 == IF Truthy(location)
                       THEN Put(h1, "location", location[1]) ELSE h1
                 h3 == AdjustRooms(h2, total_rooms)
             IN  [ret |-> Saved(PyTrue, io),
                  hotelsFile |-> _save_hotels(hf, Put(hotels, hotel_id, h3), io)]

\* Mutant: a displayed record is dropped from the store
display_hotel_RemovesRecord(hf, hotel_id) ==
    LET hotels == _load_hotels(hf)
    IN  IF hotel_id \notin DOMAIN hotels
        THEN [ret |-> PyNone, hotelsFile |-> hf]
        ELSE [ret |-> HotelFromDict(hotels[hotel_id]),
              hotelsFile |-> OkFile(Del(hotels, hotel_id))]

display_hotel(hf, hotel_id) ==
    LET hotels == _load_hotels(hf)
    IN  IF IsRaise(hotels) THEN [ret |-> hotels, hotelsFile |-> hf]
        ELSE IF hotel_id \notin DOMAIN hotels
        THEN [ret |-> PyNone, hotelsFile |-> hf]
        ELSE [ret |-> HotelFromDict(hotels[hotel_id]), hotelsFile |-> hf]

\* Mutant: the reservation id is not registered
ReserveUpdate_NoAppend(hotel, reservation_id) ==
    Put(hotel, "available_rooms", hotel.available_rooms - 1)

\* The update of a successful reserve_room (hotel.py:289-291)
ReserveUpdate(hotel, reservation_id) ==
    Put(Put(hotel, "available_rooms", hotel.available_rooms - 1),
        "reservations", Append(hotel.reservations, reservation_id))

\* Mutant: the availability check lets a hotel with 0 rooms through
reserve_room_OffByOne(hf, hotel_id, reservation_id, io) ==
    LET hotels == _load_hotels(hf)
    IN  IF hotel_id \notin DOMAIN hotels
        THEN [ret |-> PyFalse, hotelsFile |-> hf, reason |-> "not found"]
        ELSE LET hotel == hotels[hotel_id]
             IN  IF hotel.available_rooms < 0
                 THEN [ret |-> PyFalse, hotelsFile |-> hf,
                       reason |-> "no availability"]
                 ELSE IF InList(reservation_id, hotel.reservations)
                 THEN [ret |-> PyFalse, hotelsFile |-> hf,
                       reason |-> "duplicate"]
                 ELSE [ret |-> PyTrue,
                       hotelsFile |->
                           _save_hotels(hf,
                               Put(hotels, hotel_id,
                                   ReserveUpdate(hotel, reservation_id)), io),
                       reason |-> "ok"]

\* Mutant: an id already in the hotel's list is accepted again
reserve_room_NoDupCheck(hf, hotel_id, reservation_id, io) ==
    LET hotels == _load_hotels(hf)
    IN  IF hotel_id \notin DOMAIN hotels
        THEN [ret |-> PyFalse, hotelsFile |-> hf, reason |-> "not found"]
        ELSE LET hotel == hotels[hotel_id]
             IN  IF hotel.available_rooms <= 0
                 THEN [ret |-> PyFalse, hotelsFile |-> hf,
                       reason |-> "no availability"]
                 ELSE [ret |-> PyTrue,
                       hotelsFile |->
                           _save_hotels(hf,
                               Put(hotels, hotel_id,
                                   ReserveUpdate(hotel, reservation_id)), io),
                       reason |-> "ok"]

\* Mutant: the room is taken and saved before the duplicate check
reserve_room_SaveBeforeDupCheck(hf, hotel_id, reservation_id, io) ==
    LET hotels == _load_hotels(hf)
    IN  IF hotel_id \notin DOMAIN hotels
        THEN [ret |-> PyFalse, hotelsFile |-> hf, reason |-> "not found"]
        ELSE LET hotel == hotels[hotel_id]
                 taken == Put(hotel, "available_rooms",
                              hotel.available_rooms - 1)
             IN  IF hotel.available_rooms <= 0
                 THEN [ret |-> PyFalse, hotelsFile |-> hf,
                       reason |-> "no availability"]
                 ELSE IF InList(reservation_id, hotel.reservations)
                 THEN [ret |-> PyFalse,
                       hotelsFile |->
                           _save_hotels(hf, Put(hotels, hotel_id, taken), io),
                       reason |-> "duplicate"]
                 ELSE [ret |-> PyTrue,
                       hotelsFile |->
                           _save_hotels(hf,
                               Put(hotels, hotel_id,
                                   ReserveUpdate(hotel, reservation_id)), io),
                       reason |-> "ok"]

\* reason: which check made the call fail (the code prints it, the caller
\* only receives the boolean)
\* Mutant: the duplicate id is tested before the availability
reserve_room_DupCheckFirst(hf, hotel_id, reservation_id, io) ==
    LET hotels == _load_hotels(hf)
    IN  IF hotel_id \notin DOMAIN hotels
        THEN [ret |-> PyFalse, hotelsFile |-> hf, reason |-> "not found"]
        ELSE LET hotel == hotels[hotel_id]
             IN  IF InList(reservation_id, hotel.reservations)
                 THEN [ret |-> PyFalse, hotelsFile |-> hf,
                       reason |-> "duplicate"]
                 ELSE IF hotel.available_rooms <= 0
                 THEN [ret |-> PyFalse, hotelsFile |-> hf,
                       reason |-> "no availability"]
                 ELSE [ret |-> PyTrue,
                       hotelsFile |->
                           _save_hotels(hf,
                               Put(hotels, hotel_id,
                                   ReserveUpdate(hotel, reservation_id)), io),
                       reason |-> "ok"]

reserve_room(hf, hotel_id, reservation_id, io) ==
    LET hotels == _load_hotels(hf)
    IN  IF IsRaise(hotels)
        THEN [ret |-> hotels, hotelsFile |-> hf, reason |-> "raised"]
        ELSE IF hotel_id \notin DOMAIN hotels
        THEN [ret |-> PyFalse, hotelsFile |-> hf, reason |-> "not found"]
        ELSE LET hotel == hotels[hotel_id]
             IN  IF hotel.available_rooms <= 0
                 THEN [ret |-> PyFalse, hotelsFile |-> hf,
                       reason |-> "no availability"]
                 ELSE IF InList(reservation_id, hotel.reservations)
                 THEN [ret |-> PyFalse, hotelsFile |-> hf,
                       reason |-> "duplicate"]
                 ELSE [ret |-> Saved(PyTrue, io),
                       hotelsFile |->
                           _save_hotels(hf,
                               Put(hotels, hotel_id,
                                   ReserveUpdate(hotel, reservation_id)), io),
                       reason |-> "ok"]

\* Mutant: the id is removed but the room is not given back
ReleaseUpdate_NoIncrement(hotel, reservation_id) ==
    Put(hotel, "reservations", ListRemove(hotel.reservations, reservation_id))

\* Mutant: the room is given back without the min(..., total_rooms) cap
ReleaseUpdate_NoCap(hotel, reservation_id) ==
    Put(Put(hotel, "reservations",
            ListRemove(hotel.reservations, reservation_id)),
        "available_rooms", hotel.available_rooms + 1)

\* The update of a successful cancel_room_reservation (hotel.py:327-333)
ReleaseUpdate(hotel, reservation_id) ==
    Put(Put(hotel, "reservations",
            ListRemove(hotel.reservations, reservation_id)),
        "available_rooms",
        Min(hotel.available_rooms + 1, hotel.total_rooms))

cancel_room_reservation(hf, hotel_id, reservation_id, io) ==
    LET hotels == _load_hotels(hf)
    IN  IF IsRaise(hotels) THEN [ret |-> hotels, hotelsFile |-> hf]
        ELSE IF hotel_id \notin DOMAIN hotels
        THEN [ret |-> PyFalse, hotelsFile |-> hf]
        ELSE LET hotel == hotels[hotel_id]
             IN  IF ~InList(reservation_id, hotel.reservations)
                 THEN [ret |-> PyFalse, hotelsFile |-> hf]
                 ELSE [ret |-> Saved(PyTrue, io),
                       hotelsFile |->
                           _save_hotels(hf,
                               Put(hotels, hotel_id,
                                   ReleaseUpdate(hotel, reservation_id)), io)]

\* ------------------------------------------------------------------------
\* Customer Registry (src/src/customer.py)
\* ------------------------------------------------------------------------
_load_customers(cf) == load_json(cf)
_save_customers(cf, customers, io) == save_json(cf, customers, io)

\* Customer.__init__ followed by Customer.to_dict
CustomerDict(customer_id, name, email, phone) ==
    [customer_id |-> customer_id, name |-> name, email |-> email,
     phone |-> phone]

\* Customer.from_dict: the object handed back by display_customer
CustomerFromDict(data) ==
    [type |-> "Customer", customer_id |-> data.customer_id,
     name |-> data.name, email |-> data.email, phone |-> data.phone]

\* Mutant: an id already present is overwritten by the new record
create_customer_Overwrite(cf, customer_id, name, email, phone, io) ==
    LET customers == _load_customers(cf)
        d == CustomerDict(customer_id, name, email, phone)
    IN  [ret |-> IF customer_id \in DOMAIN customers THEN PyNone
                 ELSE CustomerFromDict(d),
         customersFile |->
             _save_customers(cf, Put(customers, customer_id, d), io)]

create_customer(cf, customer_id, name, email, phone, io) ==
    LET customers == _load_customers(cf)
    IN  IF IsRaise(customers) THEN [ret |-> customers, customersFile |-> cf]
        ELSE IF customer_id \in DOMAIN customers
        THEN [ret |-> PyNone, customersFile |-> cf]
        ELSE LET d == CustomerDict(customer_id, name, email, phone)
             IN  [ret |-> Saved(CustomerFromDict(d), io),
                  customersFile |->
                      _save_customers(cf, Put(customers, customer_id, d), io)]

delete_customer(cf, customer_id, io) ==
    LET customers == _load_customers(cf)
    IN  IF IsRaise(customers) THEN [ret |-> customers, customersFile |-> cf]
        ELSE IF customer_id \notin DOMAIN customers
        THEN [ret |-> PyFalse, customersFile |-> cf]
        ELSE [ret |-> Saved(PyTrue, io),
              customersFile |->
                  _save_customers(cf, Del(customers, customer_id), io)]

\* Mutant: a field that is not supplied is blanked
modify_customer_BlanksOthers(cf, customer_id, name, email, phone, io) ==
    LET customers == _load_customers(cf)
    IN  IF customer_id \notin DOMAIN customers
        THEN [ret |-> PyFalse, customersFile |-> cf]
        ELSE LET c0 == customers[customer_id]
                 c1 == Put(c0, "name", IF Truthy(name) THEN name[1] ELSE "")
                 c2 == Put(c1, "email", IF Truthy(email) THEN email[1] ELSE "")
                 c3 == Put(c2, "phone", IF Truthy(phone) THEN phone[1] ELSE "")
             IN  [ret |-> PyTrue,
                  customersFile |->
                      _save_customers(cf, Put(customers, customer_id, c3), io)]

modify_customer(cf, customer_id, name, email, phone, io) ==
    LET customers == _load_customers(cf)
    IN  IF IsRaise(customers) THEN [ret |-> customers, customersFile |-> cf]
        ELSE IF customer_id \notin DOMAIN customers
        THEN [ret |-> PyFalse, customersFile |-> cf]
        ELSE LET c0 == customers[customer_id]
                 c1 == IF Truthy(name) THEN Put(c0, "name", name[1]) ELSE c0
                 c2 == IF Truthy(email) THEN Put(c1, "email", email[1]) ELSE c1
                 c3 == IF Truthy(phone) THEN Put(c2, "phone", phone[1]) ELSE c2
             IN  [ret |-> Saved(PyTrue, io),
                  customersFile |->
                      _save_customers(cf, Put(customers, customer_id, c3), io)]

display_customer(cf, customer_id) ==
    LET customers == _load_customers(cf)
    IN  IF IsRaise(customers) THEN [ret |-> customers, customersFile |-> cf]
        ELSE IF customer_id \notin DOMAIN customers
        THEN [ret |-> PyNone, customersFile |-> cf]
        ELSE [ret |-> CustomerFromDict(customers[customer_id]),
              customersFile |-> cf]

\* Customer.exists is called by reservation.py:159 and exercised by
\* tests/unit/test_reservation.py, but customer.py does not define it; it is
\* modelled from the interface description: key lookup in the customer map.
Customer_exists(cf, customer_id) == customer_id \in DOMAIN _load_customers(cf)

\* ------------------------------------------------------------------------
\* Reservation Ledger (src/src/reservation.py)
\* ------------------------------------------------------------------------
_load_reservations(rf) == load_json(rf)
_save_reservations(rf, reservations, io) == save_json(rf, reservations, io)

\* str(date.today())
Today == "today"

\* Mutant: a new reservation starts in a status outside the enumeration
ReservationObj_Pending(reservation_id, customer_id, hotel_id, dates) ==
    [type |-> "Reservation", reservation_id |-> reservation_id,
     customer_id |-> customer_id, hotel_id |-> hotel_id, dates |-> dates,
     status |-> "pending"]

\* Reservation.__init__: the object handed back to the caller
ReservationObj(reservation_id, customer_id, hotel_id, dates) ==
    [type |-> "Reservation", reservation_id |-> reservation_id,
     customer_id |-> customer_id, hotel_id |-> hotel_id, dates |-> dates,
     status |-> ACTIVE_STATUS]

\* Reservation.to_dict
ReservationDict(res) ==
    [reservation_id |-> res.reservation_id, customer_id |-> res.customer_id,
     hotel_id |-> res.hotel_id, check_in |-> res.dates.check_in,
     check_out |-> res.dates.check_out, status |-> res.status]

\* Reservation.from_dict: the object handed back by display_reservation
ReservationFromDict(data) ==
    [type |-> "Reservation", reservation_id |-> data.reservation_id,
     customer_id |-> data.customer_id, hotel_id |-> data.hotel_id,
     dates |-> [check_in |-> data.check_in, check_out |-> data.check_out],
     status |-> data.status]

\* Mutant: the record is stored although the room could not be reserved
ReserveAndStore_StoreAnyway(rf, hf, reservations, reservation_id, customer_id, hotel_id, check_in, check_out, ioH, ioR) ==
    LET rr == reserve_room(hf, hotel_id, reservation_id, ioH)
        ci == IF check_in = None THEN Today ELSE check_in[1]
        co == IF check_out = None THEN Today ELSE check_out[1]
        reservation ==
            ReservationObj(reservation_id, customer_id, hotel_id,
                           [check_in |-> ci, check_out |-> co])
    IN  [ret |-> IF rr.ret.value THEN reservation ELSE PyNone,
         reservationsFile |->
             _save_reservations(rf,
                 Put(reservations, reservation_id,
                     ReservationDict(reservation)), ioR),
         hotelsFile |-> rr.hotelsFile,
         calls |-> <<"Customer.exists", "Hotel.reserve_room">>,
         reason |-> rr.reason]

\* Mutant: the result of reserve_room is not looked at
ReserveAndStore_IgnoresRefusal(rf, hf, reservations, reservation_id, customer_id, hotel_id, check_in, check_out, ioH, ioR) ==
    LET rr == reserve_room(hf, hotel_id, reservation_id, ioH)
        ci == IF check_in = None THEN Today ELSE check_in[1]
        co == IF check_out = None THEN Today ELSE check_out[1]
        reservation ==
            ReservationObj(reservation_id, customer_id, hotel_id,
                           [check_in |-> ci, check_out |-> co])
    IN  [ret |-> reservation,
         reservationsFile |->
             _save_reservations(rf,
                 Put(reservations, reservation_id,
                     ReservationDict(reservation)), ioR),
         hotelsFile |-> rr.hotelsFile,
         calls |-> <<"Customer.exists", "Hotel.reserve_room">>,
         reason |-> "ok"]

\* Mutant: the reservation is returned but the ledger is not saved
ReserveAndStore_NoStore(rf, hf, reservations, reservation_id, customer_id, hotel_id, check_in, check_out, ioH, ioR) ==
    LET rr == reserve_room(hf, hotel_id, reservation_id, ioH)
        ci == IF check_in = None THEN Today ELSE check_in[1]
        co == IF check_out = None THEN Today ELSE check_out[1]
    IN  [ret |-> IF rr.ret.value
                 THEN ReservationObj(reservation_id, customer_id, hotel_id,
                                     [check_in |-> ci, check_out |-> co])
                 ELSE PyNone,
         reservationsFile |-> rf,
         hotelsFile |-> rr.hotelsFile,
         calls |-> <<"Customer.exists", "Hotel.reserve_room">>,
         reason |-> rr.reason]

\* Mutant: the ledger rewrites the hotel record itself, lowering total_rooms
ReserveAndStore_ShrinksHotel(rf, hf, reservations, reservation_id, customer_id, hotel_id, check_in, check_out, ioH, ioR) ==
    LET rr == reserve_room(hf, hotel_id, reservation_id, ioH)
        ci == IF check_in = None THEN Today ELSE check_in[1]
        co == IF check_out = None THEN Today ELSE check_out[1]
        reservation ==
            ReservationObj(reservation_id, customer_id, hotel_id,
                           [check_in |-> ci, check_out |-> co])
        hs == _load_hotels(rr.hotelsFile)
    IN  IF ~rr.ret.value
        THEN [ret |-> PyNone, reservationsFile |-> rf,
              hotelsFile |-> rr.hotelsFile,
              calls |-> <<"Customer.exists", "Hotel.reserve_room">>,
              reason |-> rr.reason]
        ELSE [ret |-> reservation,
              reservationsFile |->
                  _save_reservations(rf,
                      Put(reservations, reservation_id,
                          ReservationDict(reservation)), ioR),
              hotelsFile |->
                  _save_hotels(rr.hotelsFile,
                      Put(hs, hotel_id,
                          Put(hs[hotel_id], "total_rooms",
                              hs[hotel_id].total_rooms - 1)), ioH),
              calls |-> <<"Customer.exists", "Hotel.reserve_room">>,
              reason |-> "ok"]

\* Mutant: an omitted check_out is copied from check_in
ReserveAndStore_CopiesDate(rf, hf, reservations, reservation_id, customer_id, hotel_id, check_in, check_out, ioH, ioR) ==
    LET rr == reserve_room(hf, hotel_id, reservation_id, ioH)
        ci == IF check_in = None THEN Today ELSE check_in[1]
        co == IF check_out = None THEN ci ELSE check_out[1]
        reservation ==
            ReservationObj(reservation_id, customer_id, hotel_id,
                           [check_in |-> ci, check_out |-> co])
    IN  IF ~rr.ret.value
        THEN [ret |-> PyNone, reservationsFile |-> rf,
              hotelsFile |-> rr.hotelsFile,
              calls |-> <<"Customer.exists", "Hotel.reserve_room">>,
              reason |-> rr.reason]
        ELSE [ret |-> reservation,
              reservationsFile |->
                  _save_reservations(rf,
                      Put(reservations, reservation_id,
                          ReservationDict(reservation)), ioR),
              hotelsFile |-> rr.hotelsFile,
              calls |-> <<"Customer.exists", "Hotel.reserve_room">>,
              reason |-> "ok"]

\* Mutant: a failed ledger save is reported to the caller as a failure
ReserveAndStore_ReportsFailure(rf, hf, reservations, reservation_id, customer_id, hotel_id, check_in, check_out, ioH, ioR) ==
    LET rr == reserve_room(hf, hotel_id, reservation_id, ioH)
    IN  IF IsRaise(rr.ret)
        THEN [ret |-> rr.ret, reservationsFile |-> rf,
              hotelsFile |-> rr.hotelsFile,
              calls |-> <<"Customer.exists", "Hotel.reserve_room">>,
              reason |-> "raised"]
        ELSE IF ~rr.ret.value
        THEN [ret |-> PyNone, reservationsFile |-> rf,
              hotelsFile |-> rr.hotelsFile,
              calls |-> <<"Customer.exists", "Hotel.reserve_room">>,
              reason |-> rr.reason]
        ELSE LET ci == IF check_in = None THEN Today ELSE check_in[1]
                 co == IF check_out = None THEN Today ELSE check_out[1]
                 reservation ==
                     ReservationObj(reservation_id, customer_id, hotel_id,
                                    [check_in |-> ci, check_out |-> co])
             IN  [ret |-> IF ioR = "ok" THEN reservation ELSE PyNone,
                  reservationsFile |->
                      _save_reservations(rf,
                          Put(reservations, reservation_id,
                              ReservationDict(reservation)), ioR),
                  hotelsFile |-> rr.hotelsFile,
                  calls |-> <<"Customer.exists", "Hotel.reserve_room">>,
                  reason |-> IF ioR = "ok" THEN "ok" ELSE "not saved"]

\* create_reservation from the room reservation on (reservation.py:164-191)
\* calls: the collaborator calls made, in order; reason: the failing check
ReserveAndStore(rf, hf, reservations, reservation_id, customer_id, hotel_id, check_in, check_out, ioH, ioR) ==
    LET rr == reserve_room(hf, hotel_id, reservation_id, ioH)
    IN  IF IsRaise(rr.ret)
        THEN [ret |-> rr.ret, reservationsFile |-> rf,
              hotelsFile |-> rr.hotelsFile,
              calls |-> <<"Customer.exists", "Hotel.reserve_room">>,
              reason |-> "raised"]
        ELSE IF ~rr.ret.value
        THEN [ret |-> PyNone, reservationsFile |-> rf,
              hotelsFile |-> rr.hotelsFile,
              calls |-> <<"Customer.exists", "Hotel.reserve_room">>,
              reason |-> rr.reason]
        ELSE LET ci == IF check_in = None THEN Today ELSE check_in[1]
                 co == IF check_out = None THEN Today ELSE check_out[1]
                 reservation ==
                     ReservationObj(reservation_id, customer_id, hotel_id,
                                    [check_in |-> ci, check_out |-> co])
             IN  [ret |-> Saved(reservation, ioR),
                  reservationsFile |->
                      _save_reservations(rf,
                          Put(reservations, reservation_id,
                              ReservationDict(reservation)), ioR),
                  hotelsFile |-> rr.hotelsFile,
                  calls |-> <<"Customer.exists", "Hotel.reserve_room">>,
                  reason |-> "ok"]

\* Mutant: the room is reserved before the customer is validated
create_reservation_ReserveFirst(rf, cf, hf, reservation_id, customer_id, hotel_id, check_in, check_out, ioH, ioR) ==
    LET reservations == _load_reservations(rf)
        rs == ReserveAndStore(rf, hf, reservations, reservation_id,
                              customer_id, hotel_id, check_in, check_out,
                              ioH, ioR)
    IN  IF reservation_id \in DOMAIN reservations
        THEN [ret |-> PyNone, reservationsFile |-> rf, hotelsFile |-> hf,
              calls |-> <<>>, reason |-> "already exists"]
        ELSE IF rs.ret = PyNone THEN rs
        ELSE IF ~Customer_exists(cf, customer_id)
        THEN [ret |-> PyNone, reservationsFile |-> rf,
              hotelsFile |-> rs.hotelsFile,
              calls |-> <<"Hotel.reserve_room", "Customer.exists">>,
              reason |-> "customer not found"]
        ELSE rs

\* Mutant: an id already in the ledger is not rejected
create_reservation_NoUniquenessCheck(rf, cf, hf, reservation_id, customer_id, hotel_id, check_in, check_out, ioH, ioR) ==
    LET reservations == _load_reservations(rf)
    IN  IF ~Customer_exists(cf, customer_id)
        THEN [ret |-> PyNone, reservationsFile |-> rf, hotelsFile |-> hf,
              calls |-> <<"Customer.exists">>,
              reason |-> "customer not found"]
        ELSE ReserveAndStore(rf, hf, reservations, reservation_id,
                             customer_id, hotel_id, check_in, check_out,
                             ioH, ioR)

\* Mutant: the customer check is inverted
create_reservation_InvertedCustomerCheck(rf, cf, hf, reservation_id, customer_id, hotel_id, check_in, check_out, ioH, ioR) ==
    LET reservations == _load_reservations(rf)
    IN  IF reservation_id \in DOMAIN reservations
        THEN [ret |-> PyNone, reservationsFile |-> rf, hotelsFile |-> hf,
              calls |-> <<>>, reason |-> "already exists"]
        ELSE IF Customer_exists(cf, customer_id)
        THEN [ret |-> PyNone, reservationsFile |-> rf, hotelsFile |-> hf,
              calls |-> <<"Customer.exists">>,
              reason |-> "customer not found"]
        ELSE ReserveAndStore(rf, hf, reservations, reservation_id,
                             customer_id, hotel_id, check_in, check_out,
                             ioH, ioR)

\* Mutant: the customer is not validated at all
create_reservation_NoCustomerCheck(rf, cf, hf, reservation_id, customer_id, hotel_id, check_in, check_out, ioH, ioR) ==
    LET reservations == _load_reservations(rf)
    IN  IF reservation_id \in DOMAIN reservations
        THEN [ret |-> PyNone, reservationsFile |-> rf, hotelsFile |-> hf,
              calls |-> <<>>, reason |-> "already exists"]
        ELSE ReserveAndStore(rf, hf, reservations, reservation_id,
                             customer_id, hotel_id, check_in, check_out,
                             ioH, ioR)

create_reservation(rf, cf, hf, reservation_id, customer_id, hotel_id, check_in, check_out, ioH, ioR) ==
    LET reservations == _load_reservations(rf)
    IN  IF IsRaise(reservations)
        THEN [ret |-> reservations, reservationsFile |-> rf,
              hotelsFile |-> hf, calls |-> <<>>, reason |-> "raised"]
        ELSE IF reservation_id \in DOMAIN reservations
        THEN [ret |-> PyNone, reservationsFile |-> rf, hotelsFile |-> hf,
              calls |-> <<>>, reason |-> "already exists"]
        ELSE IF IsRaise(_load_customers(cf))
        THEN [ret |-> _load_customers(cf), reservationsFile |-> rf,
              hotelsFile |-> hf, calls |-> <<"Customer.exists">>,
              reason |-> "raised"]
        ELSE IF ~Customer_exists(cf, customer_id)
        THEN [ret |-> PyNone, reservationsFile |-> rf, hotelsFile |-> hf,
              calls |-> <<"Customer.exists">>,
              reason |-> "customer not found"]
        ELSE ReserveAndStore(rf, hf, reservations, reservation_id,
                             customer_id, hotel_id, check_in, check_out,
                             ioH, ioR)

\* Mutant: the status is flipped only when the hotel released the room
ReleaseAndFlip_OnlyIfReleased(rf, hf, reservations, reservation_id, ioH, ioR) ==
    LET reservation == reservations[reservation_id]
        cr == cancel_room_reservation(hf, reservation.hotel_id,
                                      reservation_id, ioH)
    IN  IF ~cr.ret.value
        THEN [ret |-> PyFalse, reservationsFile |-> rf,
              hotelsFile |-> cr.hotelsFile,
              calls |-> <<"Hotel.cancel_room_reservation">>]
        ELSE [ret |-> PyTrue,
              reservationsFile |->
                  _save_reservations(rf,
                      Put(reservations, reservation_id,
                          Put(reservation, "status", CANCELED_STATUS)), ioR),
              hotelsFile |-> cr.hotelsFile,
              calls |-> <<"Hotel.cancel_room_reservation">>]

\* Mutant: a canceled reservation is removed from the ledger
ReleaseAndFlip_DeletesRecord(rf, hf, reservations, reservation_id, ioH, ioR) ==
    LET reservation == reservations[reservation_id]
        cr == cancel_room_reservation(hf, reservation.hotel_id,
                                      reservation_id, ioH)
    IN  [ret |-> PyTrue,
         reservationsFile |->
             _save_reservations(rf, Del(reservations, reservation_id), ioR),
         hotelsFile |-> cr.hotelsFile,
         calls |-> <<"Hotel.cancel_room_reservation">>]

\* Mutant: the status is flipped without asking the hotel to release the room
ReleaseAndFlip_NoRelease(rf, hf, reservations, reservation_id, ioH, ioR) ==
    [ret |-> PyTrue,
     reservationsFile |->
         _save_reservations(rf,
             Put(reservations, reservation_id,
                 Put(reservations[reservation_id], "status",
                     CANCELED_STATUS)), ioR),
     hotelsFile |-> hf,
     calls |-> <<>>]

\* cancel_reservation from the room release on (reservation.py:226-237)
ReleaseAndFlip(rf, hf, reservations, reservation_id, ioH, ioR) ==
    LET reservation == reservations[reservation_id]
        cr == cancel_room_reservation(hf, reservation.hotel_id,
                                      reservation_id, ioH)
    IN  IF IsRaise(cr.ret)
        THEN [ret |-> cr.ret, reservationsFile |-> rf,
              hotelsFile |-> cr.hotelsFile,
              calls |-> <<"Hotel.cancel_room_reservation">>]
        ELSE [ret |-> Saved(PyTrue, ioR),
              reservationsFile |->
                  _save_reservations(rf,
                      Put(reservations, reservation_id,
                          Put(reservation, "status", CANCELED_STATUS)), ioR),
              hotelsFile |-> cr.hotelsFile,
              calls |-> <<"Hotel.cancel_room_reservation">>]

\* Mutant: an id absent from the ledger is recorded as canceled
cancel_reservation_RecordsAbsent(rf, hf, reservation_id, ioH, ioR) ==
    LET reservations == _load_reservations(rf)
    IN  IF reservation_id \notin DOMAIN reservations
        THEN [ret |-> PyTrue,
              reservationsFile |->
                  _save_reservations(rf,
                      Put(reservations, reservation_id,
                          [reservation_id |-> reservation_id,
                           status |-> CANCELED_STATUS]), ioR),
              hotelsFile |-> hf, calls |-> <<>>]
        ELSE IF reservations[reservation_id].status = CANCELED_STATUS
        THEN [ret |-> PyFalse, reservationsFile |-> rf, hotelsFile |-> hf,
              calls |-> <<>>]
        ELSE ReleaseAndFlip(rf, hf, reservations, reservation_id, ioH, ioR)

\* Mutant: a canceled reservation can be canceled again
cancel_reservation_NoStateCheck(rf, hf, reservation_id, ioH, ioR) ==
    LET reservations == _load_reservations(rf)
    IN  IF reservation_id \notin DOMAIN reservations
        THEN [ret |-> PyFalse, reservationsFile |-> rf, hotelsFile |-> hf,
              calls |-> <<>>]
        ELSE ReleaseAndFlip(rf, hf, reservations, reservation_id, ioH, ioR)

cancel_reservation(rf, hf, reservation_id, ioH, ioR) ==
    LET reservations == _load_reservations(rf)
    IN  IF IsRaise(reservations)
        THEN [ret |-> reservations, reservationsFile |-> rf,
              hotelsFile |-> hf, calls |-> <<>>]
        ELSE IF reservation_id \notin DOMAIN reservations
        THEN [ret |-> PyFalse, reservationsFile |-> rf, hotelsFile |-> hf,
              calls |-> <<>>]
        ELSE IF reservations[reservation_id].status = CANCELED_STATUS
        THEN [ret |-> PyFalse, reservationsFile |-> rf, hotelsFile |-> hf,
              calls |-> <<>>]
        ELSE ReleaseAndFlip(rf, hf, reservations, reservation_id, ioH, ioR)

display_reservation(rf, reservation_id) ==
    LET reservations == _load_reservations(rf)
    IN  IF IsRaise(reservations)
        THEN [ret |-> reservations, reservationsFile |-> rf]
        ELSE IF reservation_id \notin DOMAIN reservations
        THEN [ret |-> PyNone, reservationsFile |-> rf]
        ELSE [ret |-> ReservationFromDict(reservations[reservation_id]),
              reservationsFile |-> rf]

\* ------------------------------------------------------------------------
\* State
\* ------------------------------------------------------------------------
VARIABLES
    hotelsFile,         \* data/hotels.json
    customersFile,      \* data/customers.json
    reservationsFile,   \* data/reservations.json
    last,               \* the last call: operation, arguments, result
    scen,               \* progress of the one-room scenario (history)
    trip,               \* progress of a reserve / release round trip (history)
    born,               \* how each ledger record came to be stored (history)
    direct,             \* listed ids put there by direct reserve_room calls
    bypass,             \* a hotel was deleted, or a room reserved or released
                        \* by a direct call, changing the hotels (history)
    callers,            \* two callers of reserve_room whose load and save
                        \* steps are separate: where each one is in its call
    ops,                \* number of calls made so far
    env                 \* environment: whether saves may fail, and whether
                        \* callers use the wider inputs (negative room
                        \* counts, either date omitted)

vars == <<hotelsFile, customersFile, reservationsFile, last, scen, trip, born,
          direct, bypass, callers, ops, env>>

hotels == _load_hotels(hotelsFile)
customers == _load_customers(customersFile)
reservations == _load_reservations(reservationsFile)

\* ------------------------------------------------------------------------
\* Inputs
\* ------------------------------------------------------------------------
\* total_rooms as callers pass it: nothing in create_hotel or modify_hotel
\* restricts the integer
RoomInputs == IF env.wide THEN (-1)..MaxRooms ELSE 0..MaxRooms
HotelNameInputs == {"Plaza"}
CityInputs == {"Lima"}
\* modify_hotel(name, location, total_rooms): one field, all fields, or an
\* empty name
ModifyHotelInputs ==
    {<<Some("Ritz"), None, None>>, <<Some(""), None, None>>,
     <<None, Some("Reno"), None>>, <<Some("Ritz"), Some("Reno"), Some(0)>>}
    \cup {<<None, None, Some(n)>> : n \in RoomInputs}
\* modify_customer(name, email, phone)
ModifyCustomerInputs ==
    {<<Some("Bob"), None, None>>, <<None, Some("bob@mail.com"), None>>,
     <<None, None, Some("555")>>}
\* create_reservation(check_in, check_out)
DateInputs ==
    IF env.wide
    THEN {<<None, Some("2026-02-05")>>, <<Some("2026-02-01"), None>>}
    ELSE {<<None, Some("2026-02-05")>>}
IoOutcomes == IF env.faults THEN {"ok", "fail", "torn", "mkdir"} ELSE {"ok"}
\* The ledger save of a call whose hotel save had the outcome ioH: both files
\* are in the directory data/, so os.makedirs fails for both or for neither
LedgerIoOutcomes(ioH) ==
    {io \in IoOutcomes : (io = "mkdir") <=> (ioH = "mkdir")}

\* ------------------------------------------------------------------------
\* The one-room scenario, followed along the calls actually made:
\* step 1  create_reservation succeeded at a hotel that had total_rooms = 1,
\*         available_rooms = 1 and no reservations
\* step 2  the next call was create_reservation with a new id and an existing
\*         customer at the same hotel
\* step 3  the next call was cancel_reservation of the first reservation
\* step 4  the next call was create_reservation with a new id and an existing
\*         customer at the same hotel
\* ok records whether every step so far had the outcome of the scenario.
\* ------------------------------------------------------------------------
ScenIdle == [step |-> 0, hotel |-> "-", res |-> "-", ok |-> TRUE]

AvailableAfter(hf, hotel_id) ==
    IF hotel_id \in DOMAIN _load_hotels(hf)
    THEN _load_hotels(hf)[hotel_id].available_rooms ELSE -1

ScenAfterCreate(r, c, h, res) ==
    LET fresh == r \notin DOMAIN reservations /\ c \in DOMAIN customers
    IN  IF scen.step = 1 /\ h = scen.hotel /\ fresh
        THEN [scen EXCEPT !.step = 2,
                  !.ok = /\ res.ret = PyNone
                         /\ res.reason = "no availability"
                         /\ res.reservationsFile = reservationsFile]
        ELSE IF scen.step = 3 /\ h = scen.hotel /\ fresh
        THEN [scen EXCEPT !.step = 4,
                  !.ok = scen.ok /\ res.ret # PyNone]
        ELSE IF /\ fresh
                /\ h \in DOMAIN hotels
                /\ hotels[h].total_rooms = 1
                /\ hotels[h].available_rooms = 1
                /\ hotels[h].reservations = <<>>
        THEN [step |-> 1, hotel |-> h, res |-> r,
              ok |-> /\ res.ret # PyNone
                     /\ AvailableAfter(res.hotelsFile, h) = 0]
        ELSE ScenIdle

ScenAfterCancel(r, res) ==
    IF scen.step = 2 /\ r = scen.res
    THEN [scen EXCEPT !.step = 3,
              !.ok = /\ scen.ok
                     /\ res.ret = PyTrue
                     /\ AvailableAfter(res.hotelsFile, scen.hotel) = 1]
    ELSE ScenIdle

\* ------------------------------------------------------------------------
\* The reserve / release round trip, followed along the calls actually made:
\* step 1  reserve_room(hotel, res) succeeded; available_rooms and
\*         reservations are the hotel's values before that call
\* step 2  the next call was cancel_room_reservation(hotel, res)
\* ------------------------------------------------------------------------
TripIdle == [step |-> 0, hotel |-> "-", res |-> "-", available_rooms |-> 0, reservations |-> <<>>]

TripAfterReserve(h, r, res) ==
    IF res.ret = PyTrue
    THEN [step |-> 1, hotel |-> h, res |-> r,
          available_rooms |-> hotels[h].available_rooms,
          reservations |-> hotels[h].reservations]
    ELSE TripIdle

TripAfterRelease(h, r, res) ==
    IF trip.step = 1 /\ h = trip.hotel /\ r = trip.res
    THEN [trip EXCEPT !.step = 2]
    ELSE TripIdle

\* ------------------------------------------------------------------------
\* The origin of each ledger record: for every id in the ledger, the call
\* that first stored it and what held during that call
\* ------------------------------------------------------------------------
\* create_reservation(r, c, h) is storing a record: the customer and the
\* hotel as the call found them, and the hotel as reserve_room left it
BornByCreate(r, c, h, res) ==
    [by |-> "create_reservation", customer_id |-> c, hotel_id |-> h,
     customer_existed |-> c \in DOMAIN customers,
     hotel_had_room |-> h \in DOMAIN hotels /\ hotels[h].available_rooms > 0,
     room_taken |->
         /\ InList("Hotel.reserve_room", res.calls)
         /\ h \in DOMAIN hotels
         /\ h \in DOMAIN _load_hotels(res.hotelsFile)
         /\ _load_hotels(res.hotelsFile)[h].available_rooms
              = hotels[h].available_rooms - 1
         /\ InList(r, _load_hotels(res.hotelsFile)[h].reservations)]

BornByOther(op) ==
    [by |-> op, customer_id |-> "-", hotel_id |-> "-",
     customer_existed |-> FALSE, hotel_had_room |-> FALSE,
     room_taken |-> FALSE]

\* born after a call that left the ledger file rf
BornAfter(rf, facts) ==
    [r \in ReservationIds \cap DOMAIN _load_reservations(rf) |->
        IF r \in DOMAIN born THEN born[r] ELSE facts]

\* ------------------------------------------------------------------------
\* The <<hotel, reservation id>> pairs that a direct reserve_room call put in
\* a hotel's list and that are still listed after a call that left the
\* hotels file hf
\* ------------------------------------------------------------------------
DirectAfter(hf, pairs) ==
    {p \in pairs :
        /\ p[1] \in DOMAIN _load_hotels(hf)
        /\ InList(p[2], _load_hotels(hf)[p[1]].reservations)}

\* ------------------------------------------------------------------------
\* Init: the stores as earlier runs left them: no file at all, or the files
\* written by create_hotel / create_customer calls for some of the ids.
\* ------------------------------------------------------------------------
Files(h, c, r) == [hotelsFile |-> h, customersFile |-> c, reservationsFile |-> r]

\* The two callers, and a caller that is not in a call
Callers == {"A", "B"}

Idle ==
    [pc |-> "idle", hotel_id |-> "-", reservation_id |-> "-",
     loaded |-> MissingFile, concurrent |-> FALSE, ret |-> PyNone]

NoCallers == [c \in Callers |-> Idle]

NoFiles == Files(MissingFile, MissingFile, MissingFile)

\* last when no result is pending
NoCall == [op |-> "none", ret |-> PyNone, calls |-> <<>>, pre |-> NoFiles]

InitialHotelFiles ==
    {create_hotel(MissingFile, "H1", "Plaza", "Lima", t, "ok").hotelsFile :
        t \in 0..MaxRooms}
    \cup {create_hotel(create_hotel(MissingFile, "H1", "Plaza", "Lima", 1,
                                    "ok").hotelsFile,
                       "H2", "Plaza", "Lima", 1, "ok").hotelsFile}

InitialCustomerFile ==
    create_customer(MissingFile, "C1", "Ann", "ann@mail.com", "111",
                    "ok").customersFile

InitialFiles ==
    {NoFiles} \cup
    {Files(h, InitialCustomerFile, MissingFile) : h \in InitialHotelFiles}

Init ==
    /\ \E f \in InitialFiles :
        /\ hotelsFile = f.hotelsFile
        /\ customersFile = f.customersFile
        /\ reservationsFile = f.reservationsFile
    /\ last = NoCall
    /\ scen = ScenIdle
    /\ trip = TripIdle
    /\ born = EmptyDict
    /\ direct = {}
    /\ bypass = FALSE
    /\ callers = NoCallers
    /\ ops = 0
    /\ env = [faults |-> FALSE, wide |-> FALSE]

\* The stores as a call finds them
Pre == Files(hotelsFile, customersFile, reservationsFile)

\* A call is made when the previous result has been handed back
Step ==
    last = NoCall /\ ops < MaxOps /\ ops' = ops + 1 /\ UNCHANGED <<env, callers>>

\* ------------------------------------------------------------------------
\* Actions: one per public operation
\* ------------------------------------------------------------------------
CreateHotel ==
    \E h \in HotelIds, n \in HotelNameInputs, c \in CityInputs,
       t \in RoomInputs, io \in IoOutcomes :
        LET res == create_hotel(hotelsFile, h, n, c, t, io)
        IN  /\ Step
            /\ hotelsFile' = res.hotelsFile
            /\ last' = [op |-> "create_hotel", hotel_id |-> h, name |-> n,
                        city |-> c, total_rooms |-> t, ret |-> res.ret,
                        calls |-> <<>>,
                        pre |-> Pre]
            /\ UNCHANGED bypass
            /\ scen' = ScenIdle
            /\ trip' = TripIdle
            /\ UNCHANGED born
            /\ direct' = DirectAfter(res.hotelsFile, direct)
            /\ UNCHANGED <<customersFile, reservationsFile>>

DeleteHotel ==
    \E h \in HotelIds, io \in IoOutcomes :
        LET res == delete_hotel(hotelsFile, h, io)
        IN  /\ Step
            /\ hotelsFile' = res.hotelsFile
            /\ last' = [op |-> "delete_hotel", hotel_id |-> h,
                        ret |-> res.ret, calls |-> <<>>,
                        pre |-> Pre]
            /\ bypass' = (bypass \/ res.hotelsFile # hotelsFile)
            /\ scen' = ScenIdle
            /\ trip' = TripIdle
            /\ UNCHANGED born
            /\ direct' = DirectAfter(res.hotelsFile, direct)
            /\ UNCHANGED <<customersFile, reservationsFile>>

ModifyHotel ==
    \E h \in HotelIds, a \in ModifyHotelInputs, io \in IoOutcomes :
        LET n == a[1]
            l == a[2]
            t == a[3]
            res == modify_hotel(hotelsFile, h, n, l, t, io)
        IN  /\ Step
            /\ hotelsFile' = res.hotelsFile
            /\ last' = [op |-> "modify_hotel", hotel_id |-> h, name |-> n,
                        location |-> l, total_rooms |-> t, ret |-> res.ret,
                        calls |-> <<>>,
                        pre |-> Pre]
            /\ UNCHANGED bypass
            /\ scen' = ScenIdle
            /\ trip' = TripIdle
            /\ UNCHANGED born
            /\ direct' = DirectAfter(res.hotelsFile, direct)
            /\ UNCHANGED <<customersFile, reservationsFile>>

DisplayHotel ==
    \E h \in HotelIds :
        LET res == display_hotel(hotelsFile, h)
        IN  /\ Step
            /\ hotelsFile' = res.hotelsFile
            /\ last' = [op |-> "display_hotel", hotel_id |-> h,
                        ret |-> res.ret, calls |-> <<>>,
                        pre |-> Pre]
            /\ UNCHANGED bypass
            /\ scen' = ScenIdle
            /\ trip' = TripIdle
            /\ UNCHANGED born
            /\ direct' = DirectAfter(res.hotelsFile, direct)
            /\ UNCHANGED <<customersFile, reservationsFile>>

ReserveRoom ==
    \E h \in HotelIds, r \in ReservationIds, io \in IoOutcomes :
        LET res == reserve_room(hotelsFile, h, r, io)
        IN  /\ Step
            /\ hotelsFile' = res.hotelsFile
            /\ last' = [op |-> "reserve_room", hotel_id |-> h,
                        reservation_id |-> r, ret |-> res.ret,
                        reason |-> res.reason, calls |-> <<>>,
                        pre |-> Pre]
            /\ bypass' = (bypass \/ res.hotelsFile # hotelsFile)
            /\ scen' = ScenIdle
            /\ trip' = TripAfterReserve(h, r, res)
            /\ UNCHANGED born
            /\ direct' = DirectAfter(res.hotelsFile,
                                     IF res.ret = PyTrue
                                     THEN direct \cup {<<h, r>>}
                                     ELSE direct)
            /\ UNCHANGED <<customersFile, reservationsFile>>

CancelRoomReservation ==
    \E h \in HotelIds, r \in ReservationIds, io \in IoOutcomes :
        LET res == cancel_room_reservation(hotelsFile, h, r, io)
        IN  /\ Step
            /\ hotelsFile' = res.hotelsFile
            /\ last' = [op |-> "cancel_room_reservation", hotel_id |-> h,
                        reservation_id |-> r, ret |-> res.ret, calls |-> <<>>,
                        pre |-> Pre]
            /\ bypass' = (bypass \/ res.hotelsFile # hotelsFile)
            /\ scen' = ScenIdle
            /\ trip' = TripAfterRelease(h, r, res)
            /\ UNCHANGED born
            /\ direct' = DirectAfter(res.hotelsFile, direct)
            /\ UNCHANGED <<customersFile, reservationsFile>>

CreateCustomer ==
    \E c \in CustomerIds, io \in IoOutcomes :
        LET res == create_customer(customersFile, c, "Ann", "ann@mail.com",
                                   "111", io)
        IN  /\ Step
            /\ customersFile' = res.customersFile
            /\ last' = [op |-> "create_customer", customer_id |-> c,
                        name |-> "Ann", email |-> "ann@mail.com",
                        phone |-> "111", ret |-> res.ret, calls |-> <<>>,
                        pre |-> Pre]
            /\ UNCHANGED bypass
            /\ scen' = ScenIdle
            /\ trip' = TripIdle
            /\ UNCHANGED born
            /\ UNCHANGED direct
            /\ UNCHANGED <<hotelsFile, reservationsFile>>

DeleteCustomer ==
    \E c \in CustomerIds, io \in IoOutcomes :
        LET res == delete_customer(customersFile, c, io)
        IN  /\ Step
            /\ customersFile' = res.customersFile
            /\ last' = [op |-> "delete_customer", customer_id |-> c,
                        ret |-> res.ret, calls |-> <<>>,
                        pre |-> Pre]
            /\ UNCHANGED bypass
            /\ scen' = ScenIdle
            /\ trip' = TripIdle
            /\ UNCHANGED born
            /\ UNCHANGED direct
            /\ UNCHANGED <<hotelsFile, reservationsFile>>

ModifyCustomer ==
    \E c \in CustomerIds, a \in ModifyCustomerInputs, io \in IoOutcomes :
        LET n == a[1]
            e == a[2]
            p == a[3]
            res == modify_customer(customersFile, c, n, e, p, io)
        IN  /\ Step
            /\ customersFile' = res.customersFile
            /\ last' = [op |-> "modify_customer", customer_id |-> c,
                        name |-> n, email |-> e, phone |-> p,
                        ret |-> res.ret, calls |-> <<>>,
                        pre |-> Pre]
            /\ UNCHANGED bypass
            /\ scen' = ScenIdle
            /\ trip' = TripIdle
            /\ UNCHANGED born
            /\ UNCHANGED direct
            /\ UNCHANGED <<hotelsFile, reservationsFile>>

DisplayCustomer ==
    \E c \in CustomerIds :
        LET res == display_customer(customersFile, c)
        IN  /\ Step
            /\ customersFile' = res.customersFile
            /\ last' = [op |-> "display_customer", customer_id |-> c,
                        ret |-> res.ret, calls |-> <<>>,
                        pre |-> Pre]
            /\ UNCHANGED bypass
            /\ scen' = ScenIdle
            /\ trip' = TripIdle
            /\ UNCHANGED born
            /\ UNCHANGED direct
            /\ UNCHANGED <<hotelsFile, reservationsFile>>

CreateReservation ==
    \E r \in ReservationIds, c \in CustomerIds, h \in HotelIds,
       d \in DateInputs, ioH \in IoOutcomes :
      \E ioR \in LedgerIoOutcomes(ioH) :
        LET ci == d[1]
            co == d[2]
            res == create_reservation(reservationsFile, customersFile,
                                      hotelsFile, r, c, h, ci, co, ioH, ioR)
        IN  /\ Step
            /\ reservationsFile' = res.reservationsFile
            /\ hotelsFile' = res.hotelsFile
            /\ last' = [op |-> "create_reservation", reservation_id |-> r,
                        customer_id |-> c, hotel_id |-> h, check_in |-> ci,
                        check_out |-> co, ret |-> res.ret,
                        reason |-> res.reason, calls |-> res.calls,
                        pre |-> Pre]
            /\ UNCHANGED bypass
            /\ scen' = ScenAfterCreate(r, c, h, res)
            /\ trip' = TripIdle
            /\ born' = BornAfter(res.reservationsFile,
                                 BornByCreate(r, c, h, res))
            /\ direct' = DirectAfter(res.hotelsFile, direct)
            /\ UNCHANGED customersFile

CancelReservation ==
    \E r \in ReservationIds, ioH \in IoOutcomes :
      \E ioR \in LedgerIoOutcomes(ioH) :
        LET res == cancel_reservation(reservationsFile, hotelsFile, r,
                                      ioH, ioR)
        IN  /\ Step
            /\ reservationsFile' = res.reservationsFile
            /\ hotelsFile' = res.hotelsFile
            /\ last' = [op |-> "cancel_reservation", reservation_id |-> r,
                        ret |-> res.ret, calls |-> res.calls,
                        pre |-> Pre]
            /\ UNCHANGED bypass
            /\ scen' = ScenAfterCancel(r, res)
            /\ trip' = TripIdle
            /\ born' = BornAfter(res.reservationsFile,
                                 BornByOther("cancel_reservation"))
            /\ direct' = DirectAfter(res.hotelsFile, direct)
            /\ UNCHANGED customersFile

DisplayReservation ==
    \E r \in ReservationIds :
        LET res == display_reservation(reservationsFile, r)
        IN  /\ Step
            /\ reservationsFile' = res.reservationsFile
            /\ last' = [op |-> "display_reservation", reservation_id |-> r,
                        ret |-> res.ret, calls |-> <<>>,
                        pre |-> Pre]
            /\ UNCHANGED bypass
            /\ scen' = ScenIdle
            /\ trip' = TripIdle
            /\ UNCHANGED born
            /\ UNCHANGED direct
            /\ UNCHANGED <<hotelsFile, customersFile>>

\* The caller takes the result; the next call can be made
Return ==
    /\ last # NoCall
    /\ last' = NoCall
    /\ UNCHANGED <<hotelsFile, customersFile, reservationsFile, scen, trip,
                   born, direct, bypass, callers, ops, env>>

Next ==
    \/ CreateHotel
    \/ DeleteHotel
    \/ ModifyHotel
    \/ DisplayHotel
    \/ ReserveRoom
    \/ CancelRoomReservation
    \/ CreateCustomer
    \/ DeleteCustomer
    \/ ModifyCustomer
    \/ DisplayCustomer
    \/ CreateReservation
    \/ CancelReservation
    \/ DisplayReservation
    \/ Return

Spec == Init /\ [][Next]_vars

\* ------------------------------------------------------------------------
\* The same operations on stores that may be unreadable and with saves that
\* may fail: the files start missing, unparsable or written by earlier
\* create_hotel / create_customer calls, and every save draws its outcome.
\* ------------------------------------------------------------------------
InitialStoreFiles ==
    {NoFiles,
     Files(CorruptFile, CorruptFile, CorruptFile),
     Files(UndecodableFile, InitialCustomerFile, MissingFile),
     Files(create_hotel(MissingFile, "H1", "Plaza", "Lima", 1, "ok").hotelsFile,
           UndecodableFile, CorruptFile),
     Files(create_hotel(MissingFile, "H1", "Plaza", "Lima", 1, "ok").hotelsFile,
           InitialCustomerFile, UndecodableFile),
     Files(create_hotel(MissingFile, "H1", "Plaza", "Lima", 1, "ok").hotelsFile,
           InitialCustomerFile, MissingFile)}

InitStore ==
    /\ \E f \in InitialStoreFiles :
        /\ hotelsFile = f.hotelsFile
        /\ customersFile = f.customersFile
        /\ reservationsFile = f.reservationsFile
    /\ last = NoCall
    /\ scen = ScenIdle
    /\ trip = TripIdle
    /\ born = EmptyDict
    /\ direct = {}
    /\ bypass = FALSE
    /\ callers = NoCallers
    /\ ops = 0
    /\ env = [faults |-> TRUE, wide |-> FALSE]

SpecStore == InitStore /\ [][Next]_vars

\* ------------------------------------------------------------------------
\* Two callers of Hotel.reserve_room, the load step (hotel.py:267) and the
\* rest of the call, checks and save (hotel.py:270-296), being separate
\* atomic steps. concurrent records that, between the load and the save of
\* the call, the other caller was between its load and its save too.
\* ------------------------------------------------------------------------
ReserveRoom_Load ==
    \E c \in Callers, h \in HotelIds, r \in ReservationIds :
        /\ callers[c].pc = "idle"
        /\ ops < MaxOps
        /\ ops' = ops + 1
        /\ callers' =
               [d \in Callers |->
                   IF d = c
                   THEN [pc |-> "loaded", hotel_id |-> h,
                         reservation_id |-> r, loaded |-> hotelsFile,
                         concurrent |->
                             \E e \in Callers \ {c} : callers[e].pc = "loaded",
                         ret |-> PyNone]
                   ELSE IF callers[d].pc = "loaded"
                   THEN [callers[d] EXCEPT !.concurrent = TRUE]
                   ELSE callers[d]]
        /\ UNCHANGED <<hotelsFile, customersFile, reservationsFile, last,
                       scen, trip, born, direct, bypass, env>>

\* The checks run on the hotels as loaded; a successful call writes the
\* whole collection it loaded, with its own change
ReserveRoom_Save ==
    \E c \in Callers :
        LET res == reserve_room(callers[c].loaded, callers[c].hotel_id,
                                callers[c].reservation_id, "ok")
        IN  /\ callers[c].pc = "loaded"
            /\ hotelsFile' =
                   IF res.ret = PyTrue THEN res.hotelsFile ELSE hotelsFile
            /\ callers' = [callers EXCEPT ![c].pc = "done",
                                          ![c].ret = res.ret]
            /\ UNCHANGED <<customersFile, reservationsFile, last, scen, trip,
                           born, direct, bypass, ops, env>>

ReserveRoom_Return ==
    \E c \in Callers :
        /\ callers[c].pc = "done"
        /\ callers' = [callers EXCEPT ![c] = Idle]
        /\ UNCHANGED <<hotelsFile, customersFile, reservationsFile, last,
                       scen, trip, born, direct, bypass, ops, env>>

NextInterleaved ==
    \/ ReserveRoom_Load
    \/ ReserveRoom_Save
    \/ ReserveRoom_Return

InitInterleaved ==
    /\ \E f \in InitialFiles :
        /\ hotelsFile = f.hotelsFile
        /\ customersFile = f.customersFile
        /\ reservationsFile = f.reservationsFile
    /\ last = NoCall
    /\ scen = ScenIdle
    /\ trip = TripIdle
    /\ born = EmptyDict
    /\ direct = {}
    /\ bypass = FALSE
    /\ callers = NoCallers
    /\ ops = 0
    /\ env = [faults |-> FALSE, wide |-> FALSE]

SpecInterleaved == InitInterleaved /\ [][NextInterleaved]_vars

\* ------------------------------------------------------------------------
\* The system called with the wider inputs: any integer as a room count,
\* and either date of a reservation omitted
\* ------------------------------------------------------------------------
InitWide ==
    /\ \E f \in InitialFiles :
        /\ hotelsFile = f.hotelsFile
        /\ customersFile = f.customersFile
        /\ reservationsFile = f.reservationsFile
    /\ last = NoCall
    /\ scen = ScenIdle
    /\ trip = TripIdle
    /\ born = EmptyDict
    /\ direct = {}
    /\ bypass = FALSE
    /\ callers = NoCallers
    /\ ops = 0
    /\ env = [faults |-> FALSE, wide |-> TRUE]

SpecWide == InitWide /\ [][Next]_vars

\* ------------------------------------------------------------------------
\* Views used by the properties
\* ------------------------------------------------------------------------
\* A result is pending: `last` describes the call that produced this state
Returned == last.op # "none"
\* The collections as the last call found them
preHotels == _load_hotels(last.pre.hotelsFile)
preCustomers == _load_customers(last.pre.customersFile)
preReservations == _load_reservations(last.pre.reservationsFile)

\* ------------------------------------------------------------------------
\* C1: for every hotel created with total_rooms >= 0, after any sequence of
\* reserve_room, cancel_room_reservation and modify_hotel(total_rooms = n),
\* n >= 0, the stored record has 0 <= available_rooms <= total_rooms.
\* ------------------------------------------------------------------------
C1_AvailableWithinCapacity ==
    \A h \in DOMAIN hotels :
        /\ 0 <= hotels[h].available_rooms
        /\ hotels[h].available_rooms <= hotels[h].total_rooms

\* modify_hotel shrank a hotel below its occupancy: the max(0, ...) guard acted
C1_Witness ==
    /\ last.op = "modify_hotel"
    /\ last.ret = PyTrue
    /\ last.total_rooms # None
    /\ LET h == last.hotel_id
       IN  /\ preHotels[h].available_rooms
                + (last.total_rooms[1] - preHotels[h].total_rooms) < 0
           /\ hotels[h].available_rooms = 0

\* ------------------------------------------------------------------------
\* C2: in every reachable state, for every hotel,
\* len(reservations) = total_rooms - available_rooms.
\* ------------------------------------------------------------------------
C2_OccupancyMatchesList ==
    \A h \in DOMAIN hotels :
        Len(hotels[h].reservations)
            = hotels[h].total_rooms - hotels[h].available_rooms

\* ------------------------------------------------------------------------
\* C3: create_reservation with a customer_id that is not in the customer
\* collection changes neither the hotels collection (in particular the target
\* hotel's available_rooms and reservations) nor the ledger, and
\* Hotel.reserve_room is not called.
\* ------------------------------------------------------------------------
C3_UnknownCustomerChangesNothing ==
    (last.op = "create_reservation" /\ last.customer_id \notin DOMAIN preCustomers)
        => /\ hotelsFile = last.pre.hotelsFile
           /\ reservationsFile = last.pre.reservationsFile
           /\ ~InList("Hotel.reserve_room", last.calls)

\* The call that failed on the customer would otherwise have taken a room
C3_Witness ==
    /\ last.op = "create_reservation"
    /\ last.customer_id \notin DOMAIN preCustomers
    /\ last.reservation_id \notin DOMAIN preReservations
    /\ last.hotel_id \in DOMAIN preHotels
    /\ preHotels[last.hotel_id].available_rooms > 0
    /\ ~InList(last.reservation_id, preHotels[last.hotel_id].reservations)

\* ------------------------------------------------------------------------
\* C4 (as stated): create_reservation with a new reservation_id, an existing
\* customer and an existing hotel with available_rooms > 0 returns an ACTIVE
\* reservation, stores it under reservation_id, decrements available_rooms
\* by 1 and appends reservation_id to the hotel's list.
\* ------------------------------------------------------------------------
C4_Created ==
    LET r == last.reservation_id
        h == last.hotel_id
    IN  /\ last.ret.type = "Reservation"
        /\ last.ret.reservation_id = r
        /\ last.ret.status = ACTIVE_STATUS
        /\ r \in DOMAIN reservations
        /\ reservations[r].reservation_id = r
        /\ reservations[r].customer_id = last.customer_id
        /\ reservations[r].hotel_id = h
        /\ reservations[r].status = ACTIVE_STATUS
        /\ \A x \in DOMAIN preReservations :
               x \in DOMAIN reservations /\ reservations[x] = preReservations[x]
        /\ h \in DOMAIN hotels
        /\ hotels[h].available_rooms = preHotels[h].available_rooms - 1
        /\ hotels[h].reservations = Append(preHotels[h].reservations, r)

C4_Precondition ==
    /\ last.op = "create_reservation"
    /\ last.reservation_id \notin DOMAIN preReservations
    /\ last.customer_id \in DOMAIN preCustomers
    /\ last.hotel_id \in DOMAIN preHotels
    /\ preHotels[last.hotel_id].available_rooms > 0

C4_Original == C4_Precondition => C4_Created

\* C4 (amended): the same, provided reservation_id is not already in the
\* hotel's reservations list.
C4_CreateSucceeds ==
    (/\ C4_Precondition
     /\ ~InList(last.reservation_id, preHotels[last.hotel_id].reservations))
        => C4_Created

\* A reservation was created at a hotel that already held another one
C4_Witness ==
    /\ C4_Precondition
    /\ last.ret # PyNone
    /\ Len(hotels[last.hotel_id].reservations) >= 2

\* ------------------------------------------------------------------------
\* C5: create_reservation with a customer_id absent from the customer
\* collection returns None as an ordinary result; nothing is raised.
\* ------------------------------------------------------------------------
C5_UnknownCustomerReturnsNone ==
    (last.op = "create_reservation" /\ last.customer_id \notin DOMAIN preCustomers)
        => last.ret = PyNone

\* The customer check is the one that rejected the call
C5_Witness ==
    /\ last.op = "create_reservation"
    /\ last.customer_id \notin DOMAIN preCustomers
    /\ last.reason = "customer not found"
    /\ last.ret = PyNone


\* ------------------------------------------------------------------------
\* C6: cancelling a reservation twice: the call on an ACTIVE reservation
\* returns True and sets status CANCELED, releasing at most one room; the call
\* on a CANCELED reservation returns False, leaves the ledger unchanged, does
\* not call the hotel release and leaves the hotels (available_rooms
\* included) unchanged.
\* ------------------------------------------------------------------------
C6_CancelTwice ==
    (last.op = "cancel_reservation" /\ last.reservation_id \in DOMAIN preReservations)
        => LET r == last.reservation_id
               h == preReservations[r].hotel_id
           IN  /\ preReservations[r].status = ACTIVE_STATUS
                    => /\ last.ret = PyTrue
                       /\ reservations[r].status = CANCELED_STATUS
                       /\ h \in DOMAIN preHotels
                            => /\ h \in DOMAIN hotels
                               /\ hotels[h].available_rooms
                                    <= preHotels[h].available_rooms + 1
               /\ preReservations[r].status = CANCELED_STATUS
                    => /\ last.ret = PyFalse
                       /\ reservationsFile = last.pre.reservationsFile
                       /\ last.calls = <<>>
                       /\ hotelsFile = last.pre.hotelsFile

\* The second cancel of a reservation was made and rejected
C6_Witness ==
    /\ last.op = "cancel_reservation"
    /\ last.reservation_id \in DOMAIN preReservations
    /\ preReservations[last.reservation_id].status = CANCELED_STATUS
    /\ last.ret = PyFalse

\* ------------------------------------------------------------------------
\* C7: a reservation is ACTIVE when first stored; the only status change any
\* operation makes is ACTIVE -> CANCELED, by cancel_reservation of that id; a
\* CANCELED reservation stays CANCELED; no other status value appears.
\* ------------------------------------------------------------------------
C7_StatusMachine ==
    /\ \A r \in DOMAIN reservations :
           reservations[r].status \in {ACTIVE_STATUS, CANCELED_STATUS}
    /\ Returned =>
        /\ \A r \in (DOMAIN reservations) \ (DOMAIN preReservations) :
               reservations[r].status = ACTIVE_STATUS
        /\ \A r \in (DOMAIN reservations) \cap (DOMAIN preReservations) :
               reservations[r].status # preReservations[r].status
                   => /\ preReservations[r].status = ACTIVE_STATUS
                      /\ reservations[r].status = CANCELED_STATUS
                      /\ last.op = "cancel_reservation"
                      /\ last.reservation_id = r
        /\ \A r \in DOMAIN preReservations :
               preReservations[r].status = CANCELED_STATUS
                   => /\ r \in DOMAIN reservations
                      /\ reservations[r].status = CANCELED_STATUS

\* A call was made on a ledger holding a CANCELED and a newly stored
\* reservation
C7_Witness ==
    /\ Returned
    /\ \E r \in DOMAIN preReservations :
           preReservations[r].status = CANCELED_STATUS
    /\ \E r \in (DOMAIN reservations) \ (DOMAIN preReservations) :
           reservations[r].status = ACTIVE_STATUS

\* ------------------------------------------------------------------------
\* C8 (as stated, general part): cancelling an ACTIVE reservation of a full
\* hotel makes a later create with a new id at that hotel succeed.
\* ------------------------------------------------------------------------
\* cancel_reservation has just cancelled an ACTIVE reservation whose hotel
\* was full: it had rooms (total_rooms >= 1) and none of them available
C8_CancelledAtFullHotel ==
    /\ last.op = "cancel_reservation"
    /\ last.ret = PyTrue
    /\ preReservations[last.reservation_id].hotel_id \in DOMAIN preHotels
    /\ preHotels[preReservations[last.reservation_id].hotel_id].available_rooms = 0
    /\ preHotels[preReservations[last.reservation_id].hotel_id].total_rooms >= 1

\* Every create_reservation made next at hotel h with an id new to the ledger
\* and to h's list, for an existing customer, succeeds
C8_NextCreateSucceeds(h) ==
    \A r \in ReservationIds \ DOMAIN reservations, c \in DOMAIN customers :
        (h \in DOMAIN hotels /\ ~InList(r, hotels[h].reservations))
            => create_reservation(reservationsFile, customersFile, hotelsFile,
                                  r, c, h, None, None, "ok", "ok").ret # PyNone

C10_FailedReserveChangesNothing ==
    (/\ last.op = "reserve_room"
     /\ \/ last.hotel_id \notin DOMAIN preHotels
        \/ preHotels[last.hotel_id].available_rooms <= 0
        \/ InList(last.reservation_id, preHotels[last.hotel_id].reservations))
        => /\ last.ret = PyFalse
           /\ hotelsFile = last.pre.hotelsFile

\* The call was rejected as a duplicate at a hotel with a room available
C10_Witness ==
    /\ last.op = "reserve_room"
    /\ last.ret = PyFalse
    /\ last.hotel_id \in DOMAIN preHotels
    /\ preHotels[last.hotel_id].available_rooms > 0
    /\ InList(last.reservation_id, preHotels[last.hotel_id].reservations)

\* ------------------------------------------------------------------------
\* C11: cancel_room_reservation(h, r) returns True exactly when hotel h
\* exists and r is in its reservations list; on success r is removed from the
\* list and available_rooms becomes min(available_rooms + 1, total_rooms);
\* otherwise it returns False and the hotels collection is unchanged.
\* ------------------------------------------------------------------------
C11_CancelRoomReservation ==
    last.op = "cancel_room_reservation"
        => LET h == last.hotel_id
               r == last.reservation_id
           IN  /\ last.ret \in {PyTrue, PyFalse}
               /\ (last.ret = PyTrue)
                    <=> /\ h \in DOMAIN preHotels
                        /\ InList(r, preHotels[h].reservations)
               /\ last.ret = PyTrue
                    => /\ h \in DOMAIN hotels
                       /\ ~InList(r, hotels[h].reservations)
                       /\ hotels[h].reservations
                            = SelectSeq(preHotels[h].reservations,
                                        LAMBDA x : x # r)
                       /\ hotels[h].available_rooms
                            = Min(preHotels[h].available_rooms + 1,
                                  preHotels[h].total_rooms)
               /\ last.ret = PyFalse
                    => hotels = preHotels

\* A release at a hotel that already showed every room available: the cap
\* acted
C11_Witness ==
    /\ last.op = "cancel_room_reservation"
    /\ last.ret = PyTrue
    /\ preHotels[last.hotel_id].available_rooms
         = preHotels[last.hotel_id].total_rooms
    /\ hotels[last.hotel_id].available_rooms
         = preHotels[last.hotel_id].available_rooms

\* ------------------------------------------------------------------------
\* C12: a successful reserve_room(h, r) followed immediately by
\* cancel_room_reservation(h, r) restores hotel h's available_rooms and
\* reservations list to exactly their values before the reserve.
\* ------------------------------------------------------------------------
C12_ReserveReleaseRoundTrip ==
    trip.step = 2
        => /\ trip.hotel \in DOMAIN hotels
           /\ hotels[trip.hotel].available_rooms = trip.available_rooms
           /\ hotels[trip.hotel].reservations = trip.reservations
           /\ Returned => last.ret = PyTrue

\* The round trip was made at a hotel that already held another reservation
C12_Witness ==
    /\ trip.step = 2
    /\ last.op = "cancel_room_reservation"
    /\ Len(trip.reservations) >= 1

\* ------------------------------------------------------------------------
\* C13: modify_hotel(h, total_rooms = n) on an existing hotel sets
\* total_rooms to n and available_rooms to
\* clamp(old_available + (n - old_total), 0, n): never below 0, never above
\* n; total_rooms = 0 applied to a hotel with available_rooms = 1 and
\* total_rooms = 1 yields available_rooms = 0.
\* ------------------------------------------------------------------------
Clamp(x, lo, hi) == IF x < lo THEN lo ELSE IF x > hi THEN hi ELSE x

C13_ModifyTotalRooms ==
    (/\ last.op = "modify_hotel"
     /\ last.total_rooms # None
     /\ last.hotel_id \in DOMAIN preHotels)
        => LET h == last.hotel_id
               n == last.total_rooms[1]
               old == preHotels[h]
           IN  /\ last.ret = PyTrue
               /\ h \in DOMAIN hotels
               /\ hotels[h].total_rooms = n
               /\ hotels[h].available_rooms
                    = Clamp(old.available_rooms + (n - old.total_rooms), 0, n)
               /\ 0 <= hotels[h].available_rooms
               /\ hotels[h].available_rooms <= n
               /\ (old.available_rooms = 1 /\ old.total_rooms = 1 /\ n = 0)
                    => hotels[h].available_rooms = 0

\* The scenario of the claim: a hotel with one room, available, resized to 0
C13_Witness ==
    /\ last.op = "modify_hotel"
    /\ last.total_rooms = Some(0)
    /\ last.hotel_id \in DOMAIN preHotels
    /\ preHotels[last.hotel_id].available_rooms = 1
    /\ preHotels[last.hotel_id].total_rooms = 1
    /\ hotels[last.hotel_id].available_rooms = 0

\* ------------------------------------------------------------------------
\* C14: modify_hotel is a partial update on the stored record: a supplied
\* name replaces the record's name, a supplied city value replaces the
\* record's city field, a supplied total_rooms replaces total_rooms; every
\* field not supplied keeps its value, no other field is added, and the
\* reservations list is never changed.
\* ------------------------------------------------------------------------
C14_PartialUpdate ==
    (last.op = "modify_hotel" /\ last.hotel_id \in DOMAIN preHotels)
        => LET h == last.hotel_id
               old == preHotels[h]
           IN  /\ h \in DOMAIN hotels
               /\ DOMAIN hotels[h] = DOMAIN old
               /\ hotels[h].hotel_id = old.hotel_id
               /\ hotels[h].name
                    = IF last.name # None THEN last.name[1] ELSE old.name
               /\ hotels[h].city
                    = IF last.location # None THEN last.location[1]
                      ELSE old.city
               /\ hotels[h].total_rooms
                    = IF last.total_rooms # None THEN last.total_rooms[1]
                      ELSE old.total_rooms
               /\ last.total_rooms = None
                    => hotels[h].available_rooms = old.available_rooms
               /\ hotels[h].reservations = old.reservations

\* ------------------------------------------------------------------------
\* C15: when reserve_room fails inside create_reservation (hotel not found,
\* no rooms available, or duplicate id in the hotel's list),
\* create_reservation returns None, no reservation record is added, and the
\* ledger and the hotels collection are both unchanged.
\* ------------------------------------------------------------------------
\* create_reservation got as far as reserve_room, which had to fail
C15_ReserveFailsInsideCreate ==
    /\ last.op = "create_reservation"
    /\ last.reservation_id \notin DOMAIN preReservations
    /\ last.customer_id \in DOMAIN preCustomers
    /\ \/ last.hotel_id \notin DOMAIN preHotels
       \/ preHotels[last.hotel_id].available_rooms <= 0
       \/ InList(last.reservation_id, preHotels[last.hotel_id].reservations)

C15_HotelFailurePropagates ==
    C15_ReserveFailsInsideCreate
        => /\ last.ret = PyNone
           /\ InList("Hotel.reserve_room", last.calls)
           /\ last.reservation_id \notin DOMAIN reservations
           /\ reservations = preReservations
           /\ reservationsFile = last.pre.reservationsFile
           /\ hotels = preHotels
           /\ hotelsFile = last.pre.hotelsFile

\* The create was refused by a hotel that has rooms, all of them taken
C15_Witness ==
    /\ C15_ReserveFailsInsideCreate
    /\ last.hotel_id \in DOMAIN preHotels
    /\ preHotels[last.hotel_id].total_rooms >= 1
    /\ preHotels[last.hotel_id].available_rooms = 0
    /\ last.ret = PyNone

\* ------------------------------------------------------------------------
\* C16: create_reservation with a reservation_id already present in the
\* ledger returns None and leaves the existing record, the hotels collection
\* and the customer collection unchanged: the uniqueness check precedes the
\* customer check and the hotel room reservation.
\* ------------------------------------------------------------------------
C16_DuplicateIdRejected ==
    (/\ last.op = "create_reservation"
     /\ last.reservation_id \in DOMAIN preReservations)
        => /\ last.ret = PyNone
           /\ reservations = preReservations
           /\ reservationsFile = last.pre.reservationsFile
           /\ hotelsFile = last.pre.hotelsFile
           /\ customersFile = last.pre.customersFile
           /\ last.calls = <<>>

\* The id was in the ledger while every later check would have passed
C16_Witness ==
    /\ last.op = "create_reservation"
    /\ last.reservation_id \in DOMAIN preReservations
    /\ last.customer_id \in DOMAIN preCustomers
    /\ last.hotel_id \in DOMAIN preHotels
    /\ preHotels[last.hotel_id].available_rooms > 0
    /\ ~InList(last.reservation_id, preHotels[last.hotel_id].reservations)
    /\ last.ret = PyNone

\* ------------------------------------------------------------------------
\* C17: cancel_reservation on an ACTIVE reservation returns True and
\* persists status CANCELED whatever the outcome of the hotel release call:
\* also when the referenced hotel no longer exists or the reservation id is
\* not in the hotel's list, in which case the hotels collection is left
\* unchanged.
\* ------------------------------------------------------------------------
C17_CancelOfActive ==
    /\ last.op = "cancel_reservation"
    /\ last.reservation_id \in DOMAIN preReservations
    /\ preReservations[last.reservation_id].status = ACTIVE_STATUS

\* The hotel release called by the cancel had to fail
C17_ReleaseFails ==
    LET h == preReservations[last.reservation_id].hotel_id
    IN  \/ h \notin DOMAIN preHotels
        \/ ~InList(last.reservation_id, preHotels[h].reservations)

C17_CancelFlipsRegardless ==
    C17_CancelOfActive
        => /\ last.ret = PyTrue
           /\ last.calls = <<"Hotel.cancel_room_reservation">>
           /\ last.reservation_id \in DOMAIN reservations
           /\ reservations[last.reservation_id]
                = Put(preReservations[last.reservation_id], "status",
                      CANCELED_STATUS)
           /\ C17_ReleaseFails
                => (hotels = preHotels /\ hotelsFile = last.pre.hotelsFile)

\* An ACTIVE reservation of a deleted hotel was cancelled
C17_Witness ==
    /\ C17_CancelOfActive
    /\ preReservations[last.reservation_id].hotel_id \notin DOMAIN preHotels
    /\ last.ret = PyTrue
    /\ reservations[last.reservation_id].status = CANCELED_STATUS

\* ------------------------------------------------------------------------
\* C18: cancel_reservation called with an id absent from the ledger returns
\* False and changes neither the ledger nor any hotel record.
\* ------------------------------------------------------------------------
C18_CancelUnknownChangesNothing ==
    (/\ last.op = "cancel_reservation"
     /\ last.reservation_id \notin DOMAIN preReservations)
        => /\ last.ret = PyFalse
           /\ reservations = preReservations
           /\ reservationsFile = last.pre.reservationsFile
           /\ hotels = preHotels
           /\ hotelsFile = last.pre.hotelsFile
           /\ last.calls = <<>>

\* The id was absent from the ledger while a hotel held it in its list
C18_Witness ==
    /\ last.op = "cancel_reservation"
    /\ last.reservation_id \notin DOMAIN preReservations
    /\ \E h \in DOMAIN preHotels :
           InList(last.reservation_id, preHotels[h].reservations)
    /\ last.ret = PyFalse

\* ------------------------------------------------------------------------
\* C19: every failing call gives its caller a result that distinguishes the
\* kind of failure: for reserve_room the caller can tell hotel-not-found from
\* no-availability from duplicate-reservation, and for create_reservation
\* the caller can tell already-exists from customer-not-found from the
\* propagated hotel failures.  Stated on the call just made: no other call on
\* the same stores gives the same result for a different reason.
\* ------------------------------------------------------------------------
C19_FailuresDistinguished ==
    /\ (last.op = "reserve_room" /\ last.ret = PyFalse)
        => \A h \in HotelIds, r \in ReservationIds :
               LET other == reserve_room(last.pre.hotelsFile, h, r, "ok")
               IN  other.ret = last.ret => other.reason = last.reason
    /\ (last.op = "create_reservation" /\ last.ret = PyNone)
        => \A r \in ReservationIds, c \in CustomerIds, h \in HotelIds :
               LET other == create_reservation(last.pre.reservationsFile,
                                last.pre.customersFile, last.pre.hotelsFile,
                                r, c, h, None, None, "ok", "ok")
               IN  other.ret = last.ret => other.reason = last.reason

\* ------------------------------------------------------------------------
\* C20: create_hotel with a new id stores a record with
\* available_rooms = total_rooms and an empty reservations list and returns
\* the hotel; with an id already present it returns None and the existing
\* record (its available_rooms and reservations included) and all other
\* records are untouched.
\* ------------------------------------------------------------------------
C20_CreateHotel ==
    last.op = "create_hotel"
        => LET h == last.hotel_id
           IN  /\ h \notin DOMAIN preHotels
                    => /\ last.ret.type = "Hotel"
                       /\ last.ret.hotel_id = h
                       /\ last.ret.available_rooms = last.total_rooms
                       /\ last.ret.reservations = <<>>
                       /\ DOMAIN hotels = (DOMAIN preHotels) \cup {h}
                       /\ hotels[h]
                            = [hotel_id |-> h, name |-> last.name,
                               city |-> last.city,
                               total_rooms |-> last.total_rooms,
                               available_rooms |-> last.total_rooms,
                               reservations |-> <<>>]
                       /\ \A g \in DOMAIN preHotels :
                              hotels[g] = preHotels[g]
               /\ h \in DOMAIN preHotels
                    => /\ last.ret = PyNone
                       /\ hotels = preHotels
                       /\ hotelsFile = last.pre.hotelsFile

\* The id was taken by a hotel holding a reservation, with other capacity
\* than the call asked for
C20_Witness ==
    /\ last.op = "create_hotel"
    /\ last.hotel_id \in DOMAIN preHotels
    /\ preHotels[last.hotel_id].reservations # <<>>
    /\ preHotels[last.hotel_id].total_rooms # last.total_rooms
    /\ last.ret = PyNone

\* ------------------------------------------------------------------------
\* C21: delete_hotel removes exactly the targeted hotel record and returns
\* True when it exists, returns False and changes nothing when it does not;
\* in both cases the reservation ledger is unchanged, so reservations
\* referencing a deleted hotel stay in the ledger with their current status.
\* ------------------------------------------------------------------------
C21_DeleteHotel ==
    last.op = "delete_hotel"
        => LET h == last.hotel_id
           IN  /\ h \in DOMAIN preHotels
                    => /\ last.ret = PyTrue
                       /\ DOMAIN hotels = (DOMAIN preHotels) \ {h}
                       /\ \A g \in DOMAIN hotels : hotels[g] = preHotels[g]
               /\ h \notin DOMAIN preHotels
                    => /\ last.ret = PyFalse
                       /\ hotels = preHotels
                       /\ hotelsFile = last.pre.hotelsFile
               /\ reservations = preReservations
               /\ reservationsFile = last.pre.reservationsFile
               /\ customersFile = last.pre.customersFile

\* A hotel with an ACTIVE reservation in the ledger was deleted while another
\* hotel was stored
C21_Witness ==
    /\ last.op = "delete_hotel"
    /\ last.ret = PyTrue
    /\ Cardinality(DOMAIN preHotels) >= 2
    /\ \E r \in DOMAIN reservations :
           /\ reservations[r].hotel_id = last.hotel_id
           /\ reservations[r].status = ACTIVE_STATUS

\* ------------------------------------------------------------------------
\* C22: display_hotel, display_reservation and display_customer never change
\* any of the three persisted collections, and two consecutive calls with
\* the same id and no intervening write return equal results (the record, or
\* None when the id is absent).
\* ------------------------------------------------------------------------
C22_IsDisplay ==
    last.op \in {"display_hotel", "display_customer", "display_reservation"}

\* The result of making the same display call again, on the stores as the
\* call just made left them
C22_SecondResult ==
    IF last.op = "display_hotel"
    THEN display_hotel(hotelsFile, last.hotel_id).ret
    ELSE IF last.op = "display_customer"
    THEN display_customer(customersFile, last.customer_id).ret
    ELSE display_reservation(reservationsFile, last.reservation_id).ret

C22_DisplayIsReadOnly ==
    C22_IsDisplay
        => /\ Pre = last.pre
           /\ C22_SecondResult = last.ret
           /\ last.op = "display_hotel"
                => IF last.hotel_id \in DOMAIN preHotels
                   THEN last.ret = HotelFromDict(preHotels[last.hotel_id])
                   ELSE last.ret = PyNone
           /\ last.op = "display_customer"
                => IF last.customer_id \in DOMAIN preCustomers
                   THEN last.ret
                          = CustomerFromDict(preCustomers[last.customer_id])
                   ELSE last.ret = PyNone
           /\ last.op = "display_reservation"
                => IF last.reservation_id \in DOMAIN preReservations
                   THEN last.ret
                          = ReservationFromDict(
                                preReservations[last.reservation_id])
                   ELSE last.ret = PyNone

\* A hotel holding a reservation was displayed
C22_Witness ==
    /\ last.op = "display_hotel"
    /\ last.ret # PyNone
    /\ last.ret.reservations # <<>>

C26_CreateCustomer ==
    last.op = "create_customer"
        => LET c == last.customer_id
               d == [customer_id |-> c, name |-> last.name,
                     email |-> last.email, phone |-> last.phone]
           IN  /\ c \in DOMAIN preCustomers
                    => /\ last.ret = PyNone
                       /\ customers = preCustomers
                       /\ customersFile = last.pre.customersFile
               /\ c \notin DOMAIN preCustomers
                    => /\ last.ret.type = "Customer"
                       /\ last.ret.customer_id = c
                       /\ last.ret.name = last.name
                       /\ last.ret.email = last.email
                       /\ last.ret.phone = last.phone
                       /\ DOMAIN customers = (DOMAIN preCustomers) \cup {c}
                       /\ customers[c] = d
                       /\ \A x \in DOMAIN preCustomers :
                              customers[x] = preCustomers[x]

\* The id was taken by a record that differs from the one the call carried
C26_Witness ==
    /\ last.op = "create_customer"
    /\ last.customer_id \in DOMAIN preCustomers
    /\ preCustomers[last.customer_id].name # last.name
    /\ last.ret = PyNone

\* ------------------------------------------------------------------------
\* C27: modify_customer on an existing customer changes only the fields
\* supplied in the call and leaves customer_id and every unsupplied field
\* unchanged; on an absent id it returns False and changes nothing.
\* ------------------------------------------------------------------------
C27_ModifyCustomer ==
    last.op = "modify_customer"
        => LET c == last.customer_id
           IN  /\ c \notin DOMAIN preCustomers
                    => /\ last.ret = PyFalse
                       /\ customers = preCustomers
                       /\ customersFile = last.pre.customersFile
               /\ c \in DOMAIN preCustomers
                    => /\ last.ret = PyTrue
                       /\ DOMAIN customers = DOMAIN preCustomers
                       /\ DOMAIN customers[c] = DOMAIN preCustomers[c]
                       /\ customers[c].customer_id = c
                       /\ customers[c].name
                            = IF Truthy(last.name) THEN last.name[1]
                              ELSE preCustomers[c].name
                       /\ customers[c].email
                            = IF Truthy(last.email) THEN last.email[1]
                              ELSE preCustomers[c].email
                       /\ customers[c].phone
                            = IF Truthy(last.phone) THEN last.phone[1]
                              ELSE preCustomers[c].phone
                       /\ \A x \in (DOMAIN preCustomers) \ {c} :
                              customers[x] = preCustomers[x]
               /\ hotelsFile = last.pre.hotelsFile
               /\ reservationsFile = last.pre.reservationsFile

\* The phone of a customer was changed while another customer was stored
C27_Witness ==
    /\ last.op = "modify_customer"
    /\ last.ret = PyTrue
    /\ last.phone # None
    /\ customers[last.customer_id].phone # preCustomers[last.customer_id].phone
    /\ customers[last.customer_id].name = preCustomers[last.customer_id].name
    /\ Cardinality(DOMAIN customers) >= 2

\* ------------------------------------------------------------------------
\* C28: every reservation record in the ledger was stored by a
\* create_reservation call during which the referenced customer existed, the
\* referenced hotel existed with available_rooms > 0, and the hotel's
\* available_rooms had already been decremented for that reservation id
\* before the record was stored.
\* ------------------------------------------------------------------------
C28_RecordOrigin ==
    \A r \in DOMAIN reservations :
        /\ r \in DOMAIN born
        /\ born[r].by = "create_reservation"
        /\ born[r].customer_id = reservations[r].customer_id
        /\ born[r].hotel_id = reservations[r].hotel_id
        /\ born[r].customer_existed
        /\ born[r].hotel_had_room
        /\ born[r].room_taken

\* The ledger holds a record whose customer and hotel have both been deleted
\* since
C28_Witness ==
    \E r \in DOMAIN reservations :
        /\ reservations[r].customer_id \notin DOMAIN customers
        /\ reservations[r].hotel_id \notin DOMAIN hotels

C30_NoDuplicateInList ==
    \A h \in DOMAIN hotels :
        \A i, j \in 1..Len(hotels[h].reservations) :
            i # j => hotels[h].reservations[i] # hotels[h].reservations[j]

\* create_reservation was refused because the hotel, which had a room free,
\* already listed the id; the list holds it once
C30_Witness ==
    /\ last.op = "create_reservation"
    /\ last.reason = "duplicate"
    /\ last.hotel_id \in DOMAIN hotels
    /\ Cardinality({i \in 1..Len(hotels[last.hotel_id].reservations) :
                       hotels[last.hotel_id].reservations[i]
                           = last.reservation_id}) = 1

\* ------------------------------------------------------------------------
\* C23: loading a collection whose store is missing or unparsable yields the
\* empty collection and never an error; every operation then behaves exactly
\* as on an empty collection (lookups report not found, and a create
\* succeeds and persists a collection holding only the new record).
\* Stated on the call just made: its result and the three collections it
\* left are those of the same call made on stores where every missing or
\* unparsable file is replaced by an empty collection.
\* ------------------------------------------------------------------------
C23_Unreadable(file) == file.kind # "ok"

C23_AsEmpty(file) == IF C23_Unreadable(file) THEN OkFile(EmptyDict) ELSE file

\* What a call leaves: its result and the collections as loaded afterwards
CallOutcome(ret, hf, cf, rf) ==
    [ret |-> ret, hotels |-> load_json(hf), customers |-> load_json(cf),
     reservations |-> load_json(rf)]

\* The outcome of the call described by `last` on the stores hf, cf, rf
Rerun(hf, cf, rf, ioH, ioR) ==
    CASE last.op = "create_hotel" ->
            LET e == create_hotel(hf, last.hotel_id, last.name, last.city,
                                  last.total_rooms, ioH)
            IN  CallOutcome(e.ret, e.hotelsFile, cf, rf)
      [] last.op = "delete_hotel" ->
            LET e == delete_hotel(hf, last.hotel_id, ioH)
            IN  CallOutcome(e.ret, e.hotelsFile, cf, rf)
      [] last.op = "modify_hotel" ->
            LET e == modify_hotel(hf, last.hotel_id, last.name, last.location,
                                  last.total_rooms, ioH)
            IN  CallOutcome(e.ret, e.hotelsFile, cf, rf)
      [] last.op = "display_hotel" ->
            LET e == display_hotel(hf, last.hotel_id)
            IN  CallOutcome(e.ret, e.hotelsFile, cf, rf)
      [] last.op = "reserve_room" ->
            LET e == reserve_room(hf, last.hotel_id, last.reservation_id, ioH)
            IN  CallOutcome(e.ret, e.hotelsFile, cf, rf)
      [] last.op = "cancel_room_reservation" ->
            LET e == cancel_room_reservation(hf, last.hotel_id,
                                             last.reservation_id, ioH)
            IN  CallOutcome(e.ret, e.hotelsFile, cf, rf)
      [] last.op = "create_customer" ->
            LET e == create_customer(cf, last.customer_id, last.name,
                                     last.email, last.phone, ioH)
            IN  CallOutcome(e.ret, hf, e.customersFile, rf)
      [] last.op = "delete_customer" ->
            LET e == delete_customer(cf, last.customer_id, ioH)
            IN  CallOutcome(e.ret, hf, e.customersFile, rf)
      [] last.op = "modify_customer" ->
            LET e == modify_customer(cf, last.customer_id, last.name,
                                     last.email, last.phone, ioH)
            IN  CallOutcome(e.ret, hf, e.customersFile, rf)
      [] last.op = "display_customer" ->
            LET e == display_customer(cf, last.customer_id)
            IN  CallOutcome(e.ret, hf, e.customersFile, rf)
      [] last.op = "create_reservation" ->
            LET e == create_reservation(rf, cf, hf, last.reservation_id,
                                        last.customer_id, last.hotel_id,
                                        last.check_in, last.check_out,
                                        ioH, ioR)
            IN  CallOutcome(e.ret, e.hotelsFile, cf, e.reservationsFile)
      [] last.op = "cancel_reservation" ->
            LET e == cancel_reservation(rf, hf, last.reservation_id, ioH, ioR)
            IN  CallOutcome(e.ret, e.hotelsFile, cf, e.reservationsFile)
      [] OTHER ->
            LET e == display_reservation(rf, last.reservation_id)
            IN  CallOutcome(e.ret, hf, cf, e.reservationsFile)

C23_UnreadableStoreIsEmpty ==
    (/\ Returned
     /\ \/ C23_Unreadable(last.pre.hotelsFile)
        \/ C23_Unreadable(last.pre.customersFile)
        \/ C23_Unreadable(last.pre.reservationsFile))
        => /\ ~IsRaise(load_json(last.pre.hotelsFile))
           /\ ~IsRaise(load_json(last.pre.customersFile))
           /\ ~IsRaise(load_json(last.pre.reservationsFile))
           /\ \E ioH \in IoOutcomes, ioR \in IoOutcomes :
                  CallOutcome(last.ret, hotelsFile, customersFile,
                              reservationsFile)
                    = Rerun(C23_AsEmpty(last.pre.hotelsFile),
                                C23_AsEmpty(last.pre.customersFile),
                                C23_AsEmpty(last.pre.reservationsFile),
                                ioH, ioR)

\* ------------------------------------------------------------------------
\* C24: when the save step of a mutating operation fails with an I/O error,
\* the failure is reported without raising and without retry, the persisted
\* collection keeps its prior content, and the operation still returns the
\* success result it would have returned had the save succeeded.
\* Stated on the call just made: its result and the collections it left are
\* those of the same call in which every save either succeeded or failed
\* leaving the prior content.
\* ------------------------------------------------------------------------
C24_SaveOutcomes == {"ok", "fail"}

C24_FailedSaveKeepsPrior ==
    Returned
        => \E ioH \in C24_SaveOutcomes, ioR \in C24_SaveOutcomes :
               CallOutcome(last.ret, hotelsFile, customersFile,
                           reservationsFile)
                 = Rerun(last.pre.hotelsFile, last.pre.customersFile,
                         last.pre.reservationsFile, ioH, ioR)

\* ------------------------------------------------------------------------
\* C31: once a reservation id is a key of the ledger it remains a key after
\* every later call (create_reservation, cancel_reservation, hotel and
\* customer operations), and its customer_id, hotel_id, check_in and
\* check_out never change; only its status may change.
\* Stated on each call: every record the call found is still there with the
\* same four fields, so by induction it is there after any number of calls.
\* ------------------------------------------------------------------------
C31_LedgerKeysPermanent ==
    Returned
        => \A r \in DOMAIN preReservations :
               /\ r \in DOMAIN reservations
               /\ reservations[r].customer_id = preReservations[r].customer_id
               /\ reservations[r].hotel_id = preReservations[r].hotel_id
               /\ reservations[r].check_in = preReservations[r].check_in
               /\ reservations[r].check_out = preReservations[r].check_out

\* A stored record survived its own cancellation (only its status changed)
\* while another record was stored beside it by a later create_reservation
C31_Witness ==
    /\ Returned
    /\ last.op = "cancel_reservation"
    /\ last.ret = PyTrue
    /\ last.reservation_id \in DOMAIN reservations
    /\ preReservations[last.reservation_id].status = ACTIVE_STATUS
    /\ reservations[last.reservation_id].status = CANCELED_STATUS
    /\ \E r \in DOMAIN reservations :
           /\ r # last.reservation_id
           /\ r \in DOMAIN born
           /\ last.reservation_id \in DOMAIN born

\* ------------------------------------------------------------------------
\* C32: create_reservation and cancel_reservation change the hotels
\* collection only through Hotel.reserve_room / Hotel.cancel_room_reservation:
\* after either call the hotels file is what it was, or what that hotel
\* operation leaves; at most the referenced hotel's available_rooms and
\* reservations differ, every other field of it, every other hotel record
\* and the customer collection are unchanged.
\* ------------------------------------------------------------------------
C32_IsLedgerCall == Returned /\ last.op \in {"create_reservation", "cancel_reservation"}

\* The hotel the call refers to ("-" when cancel_reservation finds no record)
C32_ReferencedHotel ==
    IF last.op = "create_reservation" THEN last.hotel_id
    ELSE IF last.reservation_id \in DOMAIN preReservations
    THEN preReservations[last.reservation_id].hotel_id
    ELSE "-"

\* The hotels file as the hotel's own operation leaves it
C32_ThroughHotel ==
    IF last.op = "create_reservation"
    THEN reserve_room(last.pre.hotelsFile, last.hotel_id,
                      last.reservation_id, "ok").hotelsFile
    ELSE cancel_room_reservation(last.pre.hotelsFile, C32_ReferencedHotel,
                                 last.reservation_id, "ok").hotelsFile

C32_SameButRooms(a, b) ==
    /\ DOMAIN a = DOMAIN b
    /\ \A k \in DOMAIN a \ {"available_rooms", "reservations"} : a[k] = b[k]

C32_HotelsOnlyThroughHotel ==
    C32_IsLedgerCall
        => /\ customersFile = last.pre.customersFile
           /\ hotelsFile \in {last.pre.hotelsFile, C32_ThroughHotel}
           /\ DOMAIN hotels = DOMAIN preHotels
           /\ \A h \in DOMAIN hotels :
                  IF h = C32_ReferencedHotel
                  THEN C32_SameButRooms(hotels[h], preHotels[h])
                  ELSE hotels[h] = preHotels[h]

\* A ledger call changed the referenced hotel's rooms while a second hotel
\* was stored beside it
C32_Witness ==
    /\ C32_IsLedgerCall
    /\ hotelsFile # last.pre.hotelsFile
    /\ C32_ReferencedHotel \in DOMAIN hotels
    /\ DOMAIN hotels # {C32_ReferencedHotel}
    /\ customers # EmptyDict

\* ------------------------------------------------------------------------
\* C33: every stored hotel record has total_rooms >= 0, whatever integer
\* values create_hotel and modify_hotel are called with.
\* ------------------------------------------------------------------------
C33_TotalRoomsNonNegative ==
    \A h \in DOMAIN hotels : hotels[h].total_rooms >= 0

\* ------------------------------------------------------------------------
\* C34: in create_reservation, check_in and check_out are defaulted
\* independently: an omitted one is set to the current date, a supplied one
\* is stored exactly as given, and neither is copied from the other. This
\* holds of the stored record and of the object handed back.
\* ------------------------------------------------------------------------
C34_DateStored(given) == IF given = None THEN Today ELSE given[1]

C34_DatesDefaultedIndependently ==
    (/\ Returned
     /\ last.op = "create_reservation"
     /\ last.ret # PyNone)
        => /\ last.reservation_id \in DOMAIN reservations
           /\ reservations[last.reservation_id].check_in
                = C34_DateStored(last.check_in)
           /\ reservations[last.reservation_id].check_out
                = C34_DateStored(last.check_out)
           /\ last.ret.dates.check_in = C34_DateStored(last.check_in)
           /\ last.ret.dates.check_out = C34_DateStored(last.check_out)

\* A reservation created with check_in supplied and check_out omitted: the
\* two stored dates differ
C34_Witness ==
    /\ Returned
    /\ last.op = "create_reservation"
    /\ last.ret # PyNone
    /\ last.check_in # None
    /\ last.check_out = None
    /\ reservations[last.reservation_id].check_out = Today
    /\ reservations[last.reservation_id].check_in # Today

\* ------------------------------------------------------------------------
\* C35: no overbooking: in every state reachable by create_hotel,
\* reserve_room, cancel_room_reservation and modify_hotel(total_rooms=n) with
\* n >= 0, the number of reservation ids in a hotel's list never exceeds
\* that hotel's total_rooms.
\* The ledger is empty exactly when no create_reservation has stored a
\* record, so in these states the lists were filled by the hotel operations
\* alone.
\* ------------------------------------------------------------------------
C35_NoOverbooking ==
    reservations = EmptyDict
        => \A h \in DOMAIN hotels :
               Len(hotels[h].reservations) <= hotels[h].total_rooms

\* ------------------------------------------------------------------------
\* C36: when hotels are changed only through create_hotel, modify_hotel,
\* create_reservation and cancel_reservation (no hotel deleted, no room
\* reserved or released by a direct call, every save written), in every
\* reachable state a reservation id is in its hotel's reservations list if
\* and only if its ledger record has status ACTIVE, and it is in no other
\* hotel's list.
\* ------------------------------------------------------------------------
C36_ListedIffActive ==
    ~bypass
        => /\ \A r \in DOMAIN reservations :
                  reservations[r].status = ACTIVE_STATUS
                    <=> /\ reservations[r].hotel_id \in DOMAIN hotels
                        /\ InList(r, hotels[reservations[r].hotel_id].reservations)
           /\ \A h \in DOMAIN hotels, r \in ReservationIds :
                  InList(r, hotels[h].reservations)
                    => /\ r \in DOMAIN reservations
                       /\ reservations[r].hotel_id = h

\* Two hotels, one listing an ACTIVE reservation, and a CANCELED reservation
\* that is in no list
C36_Witness ==
    /\ ~bypass
    /\ \E h \in DOMAIN hotels, r \in DOMAIN reservations :
           /\ reservations[r].status = ACTIVE_STATUS
           /\ InList(r, hotels[h].reservations)
    /\ \E r \in DOMAIN reservations :
           /\ reservations[r].status = CANCELED_STATUS
           /\ \A h \in DOMAIN hotels : ~InList(r, hotels[h].reservations)

\* ------------------------------------------------------------------------
\* C37: create_reservation is not atomic across the two stores. If the
\* ledger save fails after Hotel.reserve_room has persisted, the call still
\* returns the reservation, the hotel's room stays consumed and its list
\* holds an id that is absent from the ledger. A later create_reservation
\* with the same id at that hotel is then rejected, and a cancel_reservation
\* for it reports not found, so the room is never released through the
\* ledger.
\* ------------------------------------------------------------------------
\* In the stores fs, hotel h lists the id r and the ledger, as it loads, has
\* no record r (a failed save leaves the ledger as it was, or empty)
C37_Orphaned(fs, h, r) ==
    /\ ~IsRaise(load_json(fs.hotelsFile))
    /\ ~IsRaise(load_json(fs.reservationsFile))
    /\ h \in DOMAIN load_json(fs.hotelsFile)
    /\ InList(r, load_json(fs.hotelsFile)[h].reservations)
    /\ r \notin DOMAIN load_json(fs.reservationsFile)

\* The call just made is a create_reservation whose reserve_room persisted
\* and whose ledger save failed
C37_LedgerSaveFailed ==
    /\ Returned
    /\ last.op = "create_reservation"
    /\ ~C37_Orphaned(last.pre, last.hotel_id, last.reservation_id)
    /\ C37_Orphaned(Pre, last.hotel_id, last.reservation_id)

\* The call just made is a create_reservation for an existing customer with
\* an id that its hotel lists and the ledger lacks
C37_CreateOfOrphan ==
    /\ Returned
    /\ last.op = "create_reservation"
    /\ C37_Orphaned(last.pre, last.hotel_id, last.reservation_id)
    /\ ~IsRaise(preCustomers)
    /\ last.customer_id \in DOMAIN preCustomers

\* The call just made is a cancel_reservation of an id that some hotel lists
\* and the ledger lacks
C37_CancelOfOrphan ==
    /\ Returned
    /\ last.op = "cancel_reservation"
    /\ \E h \in HotelIds : C37_Orphaned(last.pre, h, last.reservation_id)

\* The claim as stated: the later create_reservation is rejected by the
\* duplicate check
C37_Original ==
    (/\ C37_CreateOfOrphan
     /\ <<last.hotel_id, last.reservation_id>> \notin direct)
        => last.ret = PyNone /\ last.reason = "duplicate"

\* Amended: the later create_reservation is rejected by the availability
\* check when the hotel has no free room, and by the duplicate check
\* otherwise; either way nothing is changed
C37_NotAtomic ==
    /\ C37_LedgerSaveFailed
         => /\ last.ret.type = "Reservation"
            /\ last.ret.reservation_id = last.reservation_id
            /\ hotels[last.hotel_id].available_rooms
                 = preHotels[last.hotel_id].available_rooms - 1
    /\ C37_CreateOfOrphan
         => /\ last.ret = PyNone
            /\ last.reason
                 = IF preHotels[last.hotel_id].available_rooms <= 0
                   THEN "no availability" ELSE "duplicate"
            /\ Pre = last.pre
    /\ C37_CancelOfOrphan
         => /\ last.ret = PyFalse
            /\ last.calls = <<>>
            /\ Pre = last.pre

\* A create_reservation whose ledger save failed left an id in a hotel's
\* list; the call just made repeated it and was rejected as a duplicate
C37_Witness ==
    /\ C37_CreateOfOrphan
    /\ <<last.hotel_id, last.reservation_id>> \notin direct
    /\ ~bypass
    /\ last.reason = "duplicate"
    /\ last.ret = PyNone

\* ------------------------------------------------------------------------
\* C38: with the load step and the save step of each operation as separate
\* atomic steps and two callers interleaved, a lost update is reachable: two
\* reserve_room calls on the same hotel with different reservation ids both
\* return True while the persisted hotel records only one of the ids and an
\* available_rooms decremented once. When every call runs to completion
\* before the next starts, no such state is reachable: an update is lost
\* only if one of the two calls ran while another call was between its load
\* and its save.
\* ------------------------------------------------------------------------
\* Both callers hold the result True of reserve_room calls on the same hotel
\* with different ids
C38_BothReserved ==
    /\ \A c \in Callers : callers[c].pc = "done" /\ callers[c].ret = PyTrue
    /\ callers["A"].hotel_id = callers["B"].hotel_id
    /\ callers["A"].reservation_id # callers["B"].reservation_id

\* ... and the persisted hotel lacks one of the two ids
C38_LostUpdate ==
    /\ C38_BothReserved
    /\ \E c \in Callers :
           ~InList(callers[c].reservation_id,
                   hotels[callers[c].hotel_id].reservations)

C38_LostOnlyWhenInterleaved ==
    C38_LostUpdate => \E c \in Callers : callers[c].concurrent

\* Both calls returned True on a hotel of two free rooms; the persisted
\* record holds one id and available_rooms = 1
C38_Witness ==
    /\ C38_LostUpdate
    /\ hotels[callers["A"].hotel_id].total_rooms = 2
    /\ hotels[callers["A"].hotel_id].available_rooms = 1
    /\ Len(hotels[callers["A"].hotel_id].reservations) = 1

\* ------------------------------------------------------------------------
\* C39: delete_customer never changes the reservation ledger or the hotels
\* collection: reservations of a deleted customer keep their status and keep
\* occupying their hotel room, and they can still be cancelled afterwards,
\* which releases the room.
\* ------------------------------------------------------------------------
\* The call just made cancelled an ACTIVE reservation whose customer is no
\* longer in the customer collection
C39_CancelForDeletedCustomer ==
    /\ Returned
    /\ last.op = "cancel_reservation"
    /\ last.reservation_id \in DOMAIN preReservations
    /\ preReservations[last.reservation_id].status = ACTIVE_STATUS
    /\ preReservations[last.reservation_id].customer_id
         \notin DOMAIN preCustomers

\* The hotel h listed the id r before the call just made
C39_HeldRoom(h, r) ==
    h \in DOMAIN preHotels /\ InList(r, preHotels[h].reservations)

C39_DeleteCustomerKeepsReservations ==
    /\ (Returned /\ last.op = "delete_customer")
         => /\ reservationsFile = last.pre.reservationsFile
            /\ hotelsFile = last.pre.hotelsFile
    /\ C39_CancelForDeletedCustomer
         => LET r == last.reservation_id
                h == preReservations[r].hotel_id
            IN  /\ last.ret = PyTrue
                /\ reservations[r].status = CANCELED_STATUS
                /\ C39_HeldRoom(h, r)
                     => /\ ~InList(r, hotels[h].reservations)
                        /\ hotels[h].available_rooms
                             = Min(preHotels[h].available_rooms + 1,
                                   preHotels[h].total_rooms)

\* A reservation created for a customer who existed then and has been
\* deleted since was cancelled, and its room was released
C39_Witness ==
    /\ C39_CancelForDeletedCustomer
    /\ last.reservation_id \in DOMAIN born
    /\ born[last.reservation_id].customer_existed
    /\ C39_HeldRoom(preReservations[last.reservation_id].hotel_id,
                    last.reservation_id)
    /\ hotels[preReservations[last.reservation_id].hotel_id].available_rooms
         = preHotels[preReservations[last.reservation_id].hotel_id].available_rooms + 1

\* ------------------------------------------------------------------------
\* C40: reserve_room evaluates its preconditions in the fixed order hotel
\* existence, then availability, then duplicate id: a call with a
\* reservation id already in the list of a hotel whose available_rooms is 0
\* fails on the availability check, never on the duplicate check.
\* ------------------------------------------------------------------------
\* The check on which a reserve_room call on the hotels hs must fail
C40_FirstFailingCheck(hs, h, r) ==
    IF h \notin DOMAIN hs THEN "not found"
    ELSE IF hs[h].available_rooms <= 0 THEN "no availability"
    ELSE IF InList(r, hs[h].reservations) THEN "duplicate"
    ELSE "ok"

C40_CheckOrder ==
    (Returned /\ last.op = "reserve_room")
        => /\ last.reason
                = C40_FirstFailingCheck(preHotels, last.hotel_id,
                                        last.reservation_id)
           /\ last.ret = PyBool(last.reason = "ok")
           /\ last.reason # "ok" => hotelsFile = last.pre.hotelsFile

\* reserve_room with an id already listed at a hotel with no room left
C40_Witness ==
    /\ Returned
    /\ last.op = "reserve_room"
    /\ last.hotel_id \in DOMAIN preHotels
    /\ preHotels[last.hotel_id].available_rooms = 0
    /\ InList(last.reservation_id, preHotels[last.hotel_id].reservations)
    /\ last.ret = PyFalse
    /\ last.reason = "no availability"

====
